---- MODULE Spec2Model ----
(***************************************************************************)
(* Playback scheduling of the Unspoken add-on.                             *)
(*                                                                         *)
(* GlobalPlugin (addon/globalPlugins/Unspoken/__init__.py) turns every UI  *)
(* event into a request: the handler extracts the parameters, increments   *)
(* _sound_generation, captures it and starts one daemon thread, which      *)
(* renders through OpenALLoopback.process_sound (openal_audio.py) under    *)
(* the module mutex and then stops and feeds the shared WavePlayer.        *)
(* Every shared read or write of the Python code is one step here, so a    *)
(* check and the call that follows it are two steps.                       *)
(***************************************************************************)
EXTENDS Integers, Sequences, FiniteSets, TLC

\* Bounds of the model.
MaxReq == 3             \* requests (play threads) ever started
MaxFrames == 2          \* samples of the longest sound
MaxInits == 2           \* successful initialize() calls
MaxEvents == 3          \* events _extract_sound_params is called for
MaxLive == 2            \* requests where termination and empty renders are checked
MaxPanel == 1           \* requests rendered while the settings panel is used
MaxSounds == 2          \* play_sound calls on the pyopenal engine

\* The three callers of _play_object_async.
Callers == {"focus", "mouse", "timer"}
Threads == 1..MaxReq

\* Owner of a threading.Lock: nobody, a play thread, or the main thread.
Free == << >>
ByThread(t) == << "thread", t >>
ByMain == << "main" >>

VARIABLES
    sound_generation,    \* GlobalPlugin._sound_generation
    callerPc,            \* position of each handler inside _play_object_async
    callerTmp,           \* value loaded by "self._sound_generation += 1"
    nthreads,            \* threading.Thread objects started so far
    tpc,                 \* position of each play thread
    tgen,                \* my_generation captured for each play thread
    openal_audio_mutex,  \* openal_audio._openal_audio_mutex: owner or Free
    wave_player_lock,    \* GlobalPlugin._wave_player_lock: owner or Free
    initialized,         \* OpenALLoopback.initialized
    mainPc,              \* position of the main thread in on_synthChanged / terminate
    wpClosed,            \* close() was called on the WavePlayer self.wave_player names
    playing,             \* generation whose audio the sink holds, 0 for none
    hung,                \* play thread whose native render never returns, 0 for none
    hungAt,              \* history: nthreads when that render got stuck
    fedLog,              \* history: generations in the order feed() was invoked
    feedSeen,            \* history: the counter when thread t invoked feed(), 0 if never
    stopSeen,            \* history: the counter when thread t invoked stop(), 0 if never
    burst,               \* history: requests 1..3 were all rendered at their first check
    overlap,             \* history: two handlers were inside the increment at once
    renderResult,        \* what process_sound gave each play thread
    dll,                 \* OpenALLoopback.dll is not None
    created,             \* times the native device, context and objects were created
    released,            \* times cleanup() released them
    reverb_enabled,      \* OpenALLoopback._reverb_enabled
    reverb_tail_frames,  \* OpenALLoopback._reverb_tail_frames
    dry_level,           \* OpenALLoopback._dry_level, in hundredths
    effect,              \* parameters of the native EFX reverb effect, in thousandths
    engineArgs,          \* arguments of the engine call the main thread is inside
    lastReturn,          \* what its last completed engine call returned and logged
    pass,                \* what each play thread's render pass has read and set so far
    source,              \* attributes and state of the native source, OpenALLoopback._source
    params,              \* what _extract_sound_params returned to each handler
    tparams,             \* arguments play_async passes to _play_sound_async, per thread
    conf,                \* config.conf["unspoken"]
    panel,               \* the SettingsPanel: unspoken_copy and its last handler
    synthVolume,         \* volume of the speech synthesizer, in percent
    cached_volume,       \* GlobalPlugin._cached_volume, in hundredths
    cached_desktop_size, \* GlobalPlugin._cached_desktop_size
    desktop_cache_time,  \* GlobalPlugin._desktop_cache_time
    last_played_object,  \* GlobalPlugin._last_played_object
    last_played_time,    \* GlobalPlugin._last_played_time
    now,                 \* latest value time.time() returned, in milliseconds
    objReads,            \* history: which code read which property of a UI object
    eventLog,            \* history: the events _extract_sound_params was called for
    steam                \* the SteamAudio engine of steam_audio.py and its monitors

vars == << sound_generation, callerPc, callerTmp, nthreads, tpc, tgen,
           openal_audio_mutex, wave_player_lock, initialized, mainPc,
           wpClosed, playing, hung, hungAt,
           fedLog, feedSeen, stopSeen, burst, overlap, renderResult,
           dll, created, released, reverb_enabled, reverb_tail_frames,
           dry_level, effect, engineArgs, lastReturn, pass,
           source, params, tparams, conf, panel, synthVolume, cached_volume,
           cached_desktop_size, desktop_cache_time, last_played_object,
           last_played_time, now, objReads, eventLog, steam >>

schedVars == << sound_generation, callerPc, callerTmp, nthreads >>
threadVars == << tpc, tgen >>
lockVars == << openal_audio_mutex, wave_player_lock >>
mainVars == << mainPc >>
sinkVars == << wpClosed, playing >>
hangVars == << hung, hungAt >>
histVars == << fedLog, feedSeen, stopSeen, burst, overlap >>
resultVars == << renderResult >>
reverbVars == << reverb_enabled, reverb_tail_frames, dry_level, effect >>
nativeVars == << dll, created, released >>
callVars == << engineArgs, lastReturn >>
engineVars == << nativeVars, reverbVars, callVars, pass >>
sourceVars == << source >>
paramVars == << params, tparams >>
confVars == << conf, panel, synthVolume, cached_volume >>
desktopVars == << cached_desktop_size, desktop_cache_time >>
extractVars == << last_played_object, last_played_time, now, objReads, eventLog >>
pluginVars == << sourceVars, paramVars, confVars, desktopVars, extractVars >>

\* Where a play thread can end: fed, discarded at the first or at the second
\* staleness check, or "Failed processing" (process_sound returned None).
Superseded == {"superseded1", "superseded2"}
Terminal == {"delivered", "failed"} \cup Superseded
\* The requests of the burst of three.
BurstGens == {1, 2, 3}

----------------------------------------------------------------------------
(* Values of the audio engine, OpenALLoopback (openal_audio.py). The five  *)
(* reverb settings are counted in hundredths (the 0..100 integers of the   *)
(* configuration, before "/ 100.0"), the parameters of the native effect   *)
(* in thousandths. For every setting 0..100 the double the code computes,  *)
(* converted by ctypes.c_float, is the float nearest to the exact value in *)
(* thousandths; only int() of the tail length sees the rounding of the     *)
(* doubles (RoundsBelow).                                                  *)

SampleRate == 44100
MaxSetting == 100
FrameCounts == 1..MaxFrames

\* config.conf.spec["unspoken"]: RoomSize, Damping, WetLevel, DryLevel, Width.
DefaultSettings ==
    [room_size |-> 10, damping |-> 100, wet_level |-> 9, dry_level |-> 30,
     width |-> 100]
\* No set_reverb_settings call has been made.
NoSettings ==
    [room_size |-> 0, damping |-> 0, wet_level |-> 0, dry_level |-> 0,
     width |-> 0]
\* "self._dry_level = 0.3" of the constructor.
InitialDryLevel == 30

\* int(x) for x = a / b: the quotient truncated toward zero.
Trunc(a, b) == IF a >= 0 THEN a \div b ELSE -((-a) \div b)

\* Mutant of DecayTime: the offset of 0.1 s is lost.
DecayTime_NoOffset(room_size) == room_size * 39

\* "decay_time = 0.1 + room_size * 3.9", in thousandths of a second.
DecayTime(room_size) == 100 + room_size * 39
\* "gainhf = 1.0 - damping * 0.9"
GainHF(damping) == 1000 - damping * 9
\* "gain = wet_level * 0.5"
Gain(wet_level) == wet_level * 5
\* "diffusion = width"
Diffusion(width) == width * 10

\* The effect parameters set_reverb_settings hands to alEffectf.
EffectOf(args) ==
    [configured |-> TRUE,
     decay_time |-> DecayTime(args.room_size),
     gainhf |-> GainHF(args.damping),
     gain |-> Gain(args.wet_level),
     diffusion |-> Diffusion(args.width)]
\* The effect as alGenEffects left it: no parameter was set by the add-on.
EffectNotConfigured ==
    [configured |-> FALSE, decay_time |-> 0, gainhf |-> 0, gain |-> 0,
     diffusion |-> 0]

\* Decay times whose double product decay_time * 44100 * 2 falls just below
\* the exact integer (0.6849999999999999 * 88200 and 2.05 * 88200), so that
\* int() drops one frame.
RoundsBelow == {685, 2050}

\* "int(decay_time * self.sample_rate * 2)"
TailFrames(decay_time) ==
    Trunc(decay_time * SampleRate * 2, 1000)
        - (IF decay_time \in RoundsBelow THEN 1 ELSE 0)

\* No engine call has returned yet on the main thread.
NoReturn ==
    [op |-> "none", value |-> "none", log |-> "none", native |-> FALSE,
     cause |-> "none"]
\* What a call of the method op returned and logged, whether it made native
\* calls, and for a failed initialize() what made it fail.
Returned(op, value, log, native, cause) ==
    [op |-> op, value |-> value, log |-> log, native |-> native,
     cause |-> cause]
\* No render pass is inside the mutex.
NoPass == [frames |-> 0, gain |-> 0, send |-> "unset", enabled |-> FALSE,
           tail |-> 0, out |-> 0, bytes |-> 0, input |-> << >>,
           pcm |-> << >>, upload |-> "none", routed |-> FALSE,
           calls |-> << >>]

----------------------------------------------------------------------------
(* Values of the plugin, GlobalPlugin (__init__.py). Numbers the code      *)
(* computes as floats are exact rationals here, a numerator over a         *)
(* positive denominator; volumes are counted in hundredths, times in       *)
(* milliseconds.                                                           *)

RECURSIVE GCD(_, _)
GCD(a, b) == IF b = 0 THEN a ELSE GCD(b, a % b)
Abs(a) == IF a < 0 THEN -a ELSE a
\* The number n / d, d > 0, in lowest terms.
Rat(n, d) ==
    LET g == GCD(Abs(n), d) IN [num |-> n \div g, den |-> d \div g]
Whole(n) == [num |-> n, den |-> 1]
RatLess(a, b) == a.num * b.den < b.num * a.den
\* Python's min(a, b) and max(a, b): the first argument unless the second is
\* smaller (larger).
Min2(a, b) == IF RatLess(b, a) THEN b ELSE a
Max2(a, b) == IF RatLess(a, b) THEN b ELSE a

\* Mutant of clamp: the lower limit is not applied.
clamp_NoMin(my_value, min_value, max_value) == Min2(my_value, max_value)

\* "return max(min(my_value, max_value), min_value)"
clamp(my_value, min_value, max_value) ==
    Max2(Min2(my_value, max_value), min_value)

\* Keys of the sounds dictionary (roles with a sound file that loaded) and a
\* role without a sound.
SoundRoles == {"button", "link"}
Roles == SoundRoles \cup {"window"}

\* A UI object as _extract_sound_params sees it: its role, its location
\* (left, top, width, height) or None, and its treeInterceptor, which is
\* None ("none"), has no current object or one without location
\* ("no_object"), or has a current object at ti_location ("object"). Two
\* objects are equal (obj == other) when their ids are.
NoLocation == << >>
NoObject == [id |-> "None", role |-> "window", location |-> NoLocation,
             ti |-> "none", ti_location |-> NoLocation]
UIObject(id, role, location, ti, ti_location) ==
    [id |-> id, role |-> role, location |-> location, ti |-> ti,
     ti_location |-> ti_location]

\* The desktop as GlobalPlugin.__init__ found it (width, height), and an
\* object in the middle of it.
DefaultDesktop == << 24, 20 >>
DefaultObject ==
    UIObject("ok", "button", << 10, 5, 4, 10 >>, "none", NoLocation)

\* "self._display_width", "self._display_height_min" and
\* "self._display_height_magnitude", in degrees.
display_width == 180
display_height_min == -40
display_height_magnitude == 50
\* The limit of both angles in "clamp(angle_x, -90.0, 90.0)".
MaxAngle == 90

\* Which location the position is taken from: the object's own, the one of
\* the treeInterceptor's current object, or none (the middle of the desktop).
LocationOf(obj) ==
    IF obj.location # NoLocation /\ obj.ti = "none" THEN obj.location
    ELSE IF obj.ti = "object" /\ obj.ti_location # NoLocation
         THEN obj.ti_location
    ELSE NoLocation
\* The properties of the object the code reads on the way.
PropertiesRead(obj) ==
    {"role"} \cup
    (IF obj.role \in SoundRoles
     THEN {"location", "treeInterceptor"} \cup
          (IF obj.ti # "none" /\ ~(obj.location # NoLocation /\ obj.ti = "none")
           THEN {"treeInterceptor.currentNVDAObject"} ELSE {})
     ELSE {})

\* obj_x and obj_y: "location[0] + (location[2] / 2.0)" and
\* "location[1] + (location[3] / 2.0)", or the middle of the desktop.
ObjX(obj, desktop) ==
    IF LocationOf(obj) = NoLocation THEN Rat(desktop[1], 2)
    ELSE Rat(2 * LocationOf(obj)[1] + LocationOf(obj)[3], 2)
ObjY(obj, desktop) ==
    IF LocationOf(obj) = NoLocation THEN Rat(desktop[2], 2)
    ELSE Rat(2 * LocationOf(obj)[2] + LocationOf(obj)[4], 2)

\* "((obj_x - desktop_max_x / 2.0) / desktop_max_x) * self._display_width",
\* for desktop_max_x > 0.
RawAngleX(obj_x, desktop_max_x) ==
    Rat((2 * obj_x.num - desktop_max_x * obj_x.den) * display_width,
        2 * obj_x.den * desktop_max_x)
\* "percent = (desktop_max_y - obj_y) / desktop_max_y" and
\* "self._display_height_magnitude * percent + self._display_height_min",
\* for desktop_max_y > 0.
RawAngleY(obj_y, desktop_max_y) ==
    Rat(display_height_magnitude * (desktop_max_y * obj_y.den - obj_y.num)
            + display_height_min * obj_y.den * desktop_max_y,
        obj_y.den * desktop_max_y)

\* The two angles of a request, clamped.
AngleX(obj, desktop) ==
    clamp(RawAngleX(ObjX(obj, desktop), desktop[1]),
          Whole(-MaxAngle), Whole(MaxAngle))
AngleY(obj, desktop) ==
    clamp(RawAngleY(ObjY(obj, desktop), desktop[2]),
          Whole(-MaxAngle), Whole(MaxAngle))

\* The unspoken section of the configuration as its spec defaults it, and
\* the volume a synthesizer has when nobody changed it.
DefaultConf ==
    [sayAll |-> FALSE, speakRoles |-> FALSE, noSounds |-> FALSE, HRTF |-> TRUE,
     volumeAdjust |-> TRUE, Reverb |-> TRUE,
     RoomSize |-> DefaultSettings.room_size,
     Damping |-> DefaultSettings.damping,
     WetLevel |-> DefaultSettings.wet_level,
     DryLevel |-> DefaultSettings.dry_level,
     Width |-> DefaultSettings.width]
\* The settings panel was not opened: no unspoken_copy, no handler has run.
NoCopy == << >>
NoPanel == [unspoken_copy |-> NoCopy, last |-> "none", error |-> FALSE]
DefaultSynthVolume == 100
\* "volume + 0.25", in hundredths.
HRTFBoost == 25
FullVolume == 100

\* _compute_volume(), in hundredths: 1.0 without volumeAdjust, else the
\* synthesizer's volume / 100.0 clamped to [0, 1], plus 0.25 with HRTF.
ComputeVolume(cf, synth_volume) ==
    IF ~cf.volumeAdjust THEN FullVolume
    ELSE LET volume == clamp(Rat(synth_volume, 100), Whole(0), Whole(1))
             hundredths == (volume.num * 100) \div volume.den
         IN  IF ~cf.HRTF THEN hundredths ELSE hundredths + HRTFBoost

\* What _extract_sound_params returns for a sound that is to play, and what
\* a handler holds before it has called it.
Params(role, angle_x, angle_y, volume) ==
    [role |-> role, angle_x |-> angle_x, angle_y |-> angle_y,
     volume |-> volume]
NoParams == Params("None", Whole(0), Whole(0), 0)

\* time.time() when the plugin was constructed, "_last_played_time = 0" being
\* long before it; the window of the duplicate check ("< 0.1") and the
\* lifetime of the desktop cache ("> 5.0"), in milliseconds.
StartTime == 10000
DedupWindow == 100
DesktopCacheLife == 5000

\* The native source as alGenSources creates it: no buffer attached, not
\* played yet, its gain, position and auxiliary send not set by the add-on.
NotSet == -1
NewSource ==
    [attached |-> FALSE, state |-> "initial", gain |-> NotSet,
     send |-> "unset", position |-> << 0, 0, 0 >>]
\* The source after alDeleteSources.
DeletedSource == [NewSource EXCEPT !.state = "deleted"]

\* Samples of a sound file as make_sound_objects keeps them, "s / 32768.0":
\* sixty-fourths here. The conversion scale of _float_to_int16.
SampleUnit == 64
FullScale == 32767
Sample(j) == Rat(j, SampleUnit)
\* "adjusted_audio = [sample * volume for sample in audio_data]", the volume
\* in hundredths.
Adjusted(audio_data, volume) ==
    [i \in DOMAIN audio_data |->
        Rat(audio_data[i].num * volume, audio_data[i].den * 100)]

\* Mutant of Clamped: the sample is not clamped before it is scaled.
Clamped_Not(s) == s

\* "clamped = max(-1.0, min(1.0, s))"
Clamped(s) == Max2(Whole(-1), Min2(Whole(1), s))

\* _float_to_int16: "arr[i] = int(clamped * 32767)".
FloatToInt16(float_samples) ==
    [i \in DOMAIN float_samples |->
        Trunc(Clamped(float_samples[i]).num * FullScale,
              Clamped(float_samples[i]).den)]

\* math.sin(math.radians(a)) and math.cos(math.radians(a)) for a whole
\* number of degrees on a grid of 15, in ten-thousandths: the nearest
\* ten-thousandth of the double the code computes.
TrigUnit == 10000
SinQuadrant(a) ==
    CASE a = 0 -> 0
      [] a = 15 -> 2588
      [] a = 30 -> 5000
      [] a = 45 -> 7071
      [] a = 60 -> 8660
      [] a = 75 -> 9659
      [] a = 90 -> TrigUnit
Sin(a) == IF a < 0 THEN -SinQuadrant(-a) ELSE SinQuadrant(a)
Cos(a) == SinQuadrant(90 - Abs(a))
\* a / b rounded to the nearest integer, b > 0.
Round(a, b) == Trunc(2 * a + (IF a < 0 THEN -b ELSE b), 2 * b)
\* An angle of a request in whole degrees.
Degrees(angle) == angle.num \div angle.den

\* Mutant of PosZ: the sign of math.cos(rad_x) is lost.
PosZ_Positive(x, y) == Round(Cos(x) * Cos(y), TrigUnit)

\* "pos_x = math.sin(rad_x) * math.cos(rad_y)", "pos_y = math.sin(rad_y)",
\* "pos_z = -math.cos(rad_x) * math.cos(rad_y)", in ten-thousandths.
PosX(x, y) == Round(Sin(x) * Cos(y), TrigUnit)
PosY(x, y) == Sin(y)
PosZ(x, y) == Round((-Cos(x)) * Cos(y), TrigUnit)
\* The position alSource3f(AL_POSITION) receives for the two angles.
Position(angle_x, angle_y) ==
    << PosX(Degrees(angle_x), Degrees(angle_y)),
       PosY(Degrees(angle_x), Degrees(angle_y)),
       PosZ(Degrees(angle_x), Degrees(angle_y)) >>

----------------------------------------------------------------------------
(* The pyopenal engine of steam_audio.py. Every native call and every use  *)
(* of _active_handles is inside "with _openal_mutex", so each such block   *)
(* is one step. pyopenal raises when a call leaves an AL error, as for a   *)
(* source name that was deleted; OpenAL may give a new source the name of  *)
(* a deleted one.                                                          *)

\* The play_sound calls and the names OpenAL gives to their pairs.
Sounds == 1..MaxSounds
Names == 1..MaxSounds

\* SteamAudio after a successful initialize(): no handle, no pair.
\*   name[n]      the value of source_id and buffer_id of call n, 0 before
\*   owner[i]     the call whose pair has the name i in OpenAL, 0 for none
\*   sounding     the names of the sources in state AL_PLAYING
\*   pc[n]        where call n and its monitor thread are
\*   delCalls[n]  history: alDeleteSources calls made with the handle of n
\*   deletedBy[n] history: who deleted the pair of n
SteamInit ==
    [initialized |-> TRUE,
     active_handles |-> {},
     made |-> 0,
     name |-> [n \in Sounds |-> 0],
     owner |-> [i \in Names |-> 0],
     sounding |-> {},
     pc |-> [n \in Sounds |-> "none"],
     delCalls |-> [n \in Sounds |-> 0],
     deletedBy |-> [n \in Sounds |-> "nobody"]]

\* Everything but the pyopenal engine.
pluginState ==
    << schedVars, threadVars, lockVars, initialized, mainVars, sinkVars,
       hangVars, pluginVars, resultVars, engineVars, histVars >>

\* The engine st after alSourceStop, alDeleteSources and alDeleteBuffers
\* were called, each in its try block, with the handles of the calls in
\* hs by the caller who: a pair that still has its name is deleted, for a
\* name without a pair the calls raise and the exception is passed over.
DeleteHandles(st, hs, who) ==
    LET names == {st.name[n] : n \in hs}
        gone == {m \in Sounds : st.name[m] \in names
                                   /\ st.owner[st.name[m]] = m}
    IN  [st EXCEPT
           !.owner = [i \in Names |-> IF i \in names THEN 0 ELSE st.owner[i]],
           !.sounding = st.sounding \ names,
           !.delCalls = [n \in Sounds |-> IF n \in hs THEN st.delCalls[n] + 1
                                                      ELSE st.delCalls[n]],
           !.deletedBy = [m \in Sounds |-> IF m \in gone THEN who
                                                         ELSE st.deletedBy[m]]]

\* play_sound is called: "if not self.initialized: return False", read
\* without the mutex.
PlaySoundEnter ==
    /\ steam.made < MaxSounds
    /\ steam' = [steam EXCEPT
                   !.made = steam.made + 1,
                   !.pc[steam.made + 1] = IF steam.initialized THEN "entered"
                                                               ELSE "refused"]
    /\ UNCHANGED pluginState

\* The with block of play_sound: the buffer and the source are generated
\* under a free name i, the source is played and the pair is appended to
\* _active_handles. After a cleanup() there is no context: alGenBuffers
\* raises and play_sound ends.
PlaySoundCreate(n, i) ==
    /\ steam.pc[n] = "entered"
    /\ steam.owner[i] = 0
    /\ steam' = IF steam.initialized
                THEN [steam EXCEPT !.name[n] = i,
                                   !.owner[i] = n,
                                   !.sounding = steam.sounding \cup {i},
                                   !.active_handles = steam.active_handles \cup {n},
                                   !.pc[n] = "created"]
                ELSE [steam EXCEPT !.pc[n] = "raised"]
    /\ UNCHANGED pluginState

\* threading.Thread(target=self._monitor_source, ...).start()
MonitorStart(n) ==
    /\ steam.pc[n] = "created"
    /\ steam' = [steam EXCEPT !.pc[n] = "poll"]
    /\ UNCHANGED pluginState

\* The source named i has played its buffer to the end.
SoundEnds(i) ==
    /\ i \in steam.sounding
    /\ steam' = [steam EXCEPT !.sounding = steam.sounding \ {i}]
    /\ UNCHANGED pluginState

\* The monitor of call n leaves its loop: alGetSourcei raises for a name
\* without a source, or the source of that name is not playing.
MonitorPoll(n) ==
    /\ steam.pc[n] = "poll"
    /\ steam.name[n] \notin steam.sounding
    /\ steam' = [steam EXCEPT !.pc[n] = "finally"]
    /\ UNCHANGED pluginState

\* The finally block of _monitor_source: stop and delete with the handle of
\* call n, then every handle with the same source name is taken out of
\* _active_handles.
MonitorFinally(n) ==
    /\ steam.pc[n] = "finally"
    /\ steam' = [DeleteHandles(steam, {n}, "monitor") EXCEPT
                   !.active_handles =
                       {h \in steam.active_handles :
                            steam.name[h] # steam.name[n]},
                   !.pc[n] = "done"]
    /\ UNCHANGED pluginState

\* stop_all(): every handle of _active_handles is stopped and deleted on an
\* initialized engine, and the list is cleared.
StopAll ==
    /\ steam.active_handles # {}
    /\ steam' = IF steam.initialized
                THEN [DeleteHandles(steam, steam.active_handles, "stop_all")
                          EXCEPT !.active_handles = {}]
                ELSE [steam EXCEPT !.active_handles = {}]
    /\ UNCHANGED pluginState

\* SteamAudio.cleanup() on an initialized engine: as stop_all, then the
\* context is destroyed and the device closed.
SteamCleanup ==
    /\ steam.initialized
    /\ steam' = [DeleteHandles(steam, steam.active_handles, "cleanup")
                     EXCEPT !.active_handles = {},
                            !.initialized = FALSE]
    /\ UNCHANGED pluginState

----------------------------------------------------------------------------
\* The scheduler of a plugin that was just constructed: the counter is 0, the
\* player is created, no thread exists.
SchedulerInit ==
    /\ steam = SteamInit
    /\ sound_generation = 0
    /\ callerPc = [c \in Callers |-> "idle"]
    /\ callerTmp = [c \in Callers |-> 0]
    /\ nthreads = 0
    /\ tpc = [t \in Threads |-> "none"]
    /\ tgen = [t \in Threads |-> 0]
    /\ openal_audio_mutex = Free
    /\ wave_player_lock = Free
    /\ mainPc = "idle"
    /\ wpClosed = FALSE
    /\ playing = 0
    /\ hung = 0
    /\ hungAt = 0
    /\ fedLog = << >>
    /\ feedSeen = [t \in Threads |-> 0]
    /\ stopSeen = [t \in Threads |-> 0]
    /\ burst = "open"
    /\ overlap = FALSE
    /\ renderResult = [t \in Threads |-> "none"]
    /\ lastReturn = NoReturn
    /\ pass = NoPass
    /\ source = NewSource
    /\ params = [c \in Callers |-> NoParams]
    /\ tparams = [t \in Threads |-> NoParams]
    /\ conf = DefaultConf
    /\ panel = NoPanel
    /\ synthVolume = DefaultSynthVolume
    /\ cached_volume = ComputeVolume(DefaultConf, DefaultSynthVolume)
    /\ cached_desktop_size = DefaultDesktop
    /\ desktop_cache_time = StartTime
    /\ last_played_object = NoObject
    /\ last_played_time = 0
    /\ now = StartTime
    /\ objReads = {}
    /\ eventLog = << >>

\* GlobalPlugin.__init__ has run: the engine is initialized (it raises
\* otherwise) and the reverb is configured from the default configuration,
\* set_reverb_settings first, enable_reverb(True) after it.
Init ==
    /\ SchedulerInit
    /\ engineArgs = DefaultSettings
    /\ initialized = TRUE
    /\ dll = TRUE
    /\ created = 1
    /\ released = 0
    /\ dry_level = DefaultSettings.dry_level
    /\ effect = EffectOf(DefaultSettings)
    /\ reverb_tail_frames = TailFrames(DecayTime(DefaultSettings.room_size))
    /\ reverb_enabled = TRUE

\* get_openal_audio() has constructed the engine and nothing else has run:
\* the DLL was loaded or not, the engine is not initialized.
InitEngine ==
    /\ SchedulerInit
    /\ engineArgs = NoSettings
    /\ initialized = FALSE
    /\ dll \in BOOLEAN
    /\ created = 0
    /\ released = 0
    /\ dry_level = InitialDryLevel
    /\ effect = EffectNotConfigured
    /\ reverb_tail_frames = 0
    /\ reverb_enabled = FALSE

----------------------------------------------------------------------------
(* Submitting: _play_object_async, called by event_gainFocus,              *)
(* event_mouseMove and _onNavigationTimer.                                 *)

InSubmit(c) == callerPc[c] # "idle"
Submitting == {c \in Callers : InSubmit(c)}
InIncrement(c) == callerPc[c] \in {"store", "capture"}

\* NVDA runs its event handlers, the wx timer and the synthChanged
\* notification on one thread: a handler starts when no other one is running.
MainThreadFree == mainPc = "idle" /\ Submitting = {}

\* The plugin still receives events, and the model has room for a request.
AcceptsEvents == mainPc \notin {"tm_wait", "tm_close", "tm_in_close", "tm_cleanup",
                                "tm_wait_mutex", "tm_native", "tm_done"}
RoomForRequest == nthreads + Cardinality(Submitting) < MaxReq

\* Mutant of IsDuplicate: the object is not compared.
IsDuplicate_AnyObject(obj, curtime) ==
    curtime - last_played_time < DedupWindow

\* The duplicate check: "curtime - self._last_played_time < 0.1 and
\* obj == self._last_played_object".
IsDuplicate(obj, curtime) ==
    /\ curtime - last_played_time < DedupWindow
    /\ obj.id = last_played_object.id

\* How _extract_sound_params ends for an object at time curtime, the desktop
\* having the given size: None for one of four reasons, a ZeroDivisionError
\* for a desktop without width or height, or the parameters.
ExtractOutcome(obj, curtime, running, size) ==
    IF conf.noSounds THEN "no_sounds"
    ELSE IF conf.sayAll /\ running THEN "say_all"
    ELSE IF IsDuplicate(obj, curtime) THEN "duplicate"
    ELSE IF obj.role \notin SoundRoles THEN "no_sound_for_role"
    ELSE IF size[1] = 0 \/ size[2] = 0 THEN "raised"
    ELSE "params"

\* The outcomes that leave before "self._last_played_object = obj".
EarlyOutcomes == {"no_sounds", "say_all", "duplicate"}

\* _play_object_async(obj) up to the increment, called by a handler on the
\* main thread: _extract_sound_params reads the clock (wait later than the
\* last time), SayAllHandler.isRunning() and the object, refreshes the
\* desktop cache when it is older than 5 s, and returns None, raises or
\* returns the parameters.
PlayObjectAsync(c, obj, wait, running, desktop) ==
    LET curtime == now + wait
        refresh == curtime - desktop_cache_time > DesktopCacheLife
        size == IF refresh THEN desktop ELSE cached_desktop_size
        outcome == ExtractOutcome(obj, curtime, running, size)
    IN  /\ callerPc[c] = "idle"
        /\ AcceptsEvents
        /\ RoomForRequest
        /\ Len(eventLog) < MaxEvents
        /\ now' = curtime
        /\ eventLog' = Append(eventLog,
                              [object |-> obj, time |-> curtime,
                               outcome |-> outcome])
        /\ IF outcome \in EarlyOutcomes
           THEN UNCHANGED << last_played_object, last_played_time, objReads >>
           ELSE /\ last_played_object' = obj
                /\ last_played_time' = curtime
                /\ objReads' = objReads \cup
                                  { << "handler", property >> :
                                        property \in PropertiesRead(obj) }
        /\ IF outcome \in {"raised", "params"}
           THEN /\ cached_desktop_size' = size
                /\ desktop_cache_time' = IF refresh THEN curtime
                                         ELSE desktop_cache_time
           ELSE UNCHANGED desktopVars
        /\ IF outcome = "params"
           THEN /\ params' = [params EXCEPT
                                ![c] = Params(obj.role, AngleX(obj, size),
                                              AngleY(obj, size), cached_volume)]
                /\ callerPc' = [callerPc EXCEPT ![c] = "load"]
           ELSE UNCHANGED << params, callerPc >>
        /\ UNCHANGED << sound_generation, callerTmp, nthreads, tparams >>
        /\ UNCHANGED << threadVars, lockVars, initialized, mainVars, sinkVars,
                        hangVars, steam, sourceVars, confVars, resultVars, engineVars,
                        histVars >>

\* An event for the object in the middle of the desktop, 100 ms after the
\* event before it.
EventBegin(c) ==
    \E running \in BOOLEAN :
        PlayObjectAsync(c, DefaultObject, DedupWindow, running,
                        cached_desktop_size)

\* "self._sound_generation += 1": the read.
SubmitLoad(c) ==
    /\ callerPc[c] = "load"
    /\ callerTmp' = [callerTmp EXCEPT ![c] = sound_generation]
    /\ callerPc' = [callerPc EXCEPT ![c] = "store"]
    /\ overlap' = (overlap \/ \E d \in Callers \ {c} : InIncrement(d))
    /\ UNCHANGED << sound_generation, nthreads >>
    /\ UNCHANGED << threadVars, lockVars, initialized, mainVars, sinkVars,
                    hangVars, steam, pluginVars, resultVars, engineVars, fedLog, feedSeen, stopSeen, burst >>

\* Mutant of Incremented: the "+ 1" is lost.
Incremented_Same(v) == v

\* The value "self._sound_generation += 1" writes back.
Incremented(v) == v + 1

\* Mutant of SubmitStore: the increment is made under _wave_player_lock.
SubmitStore_UnderLock(c) ==
    /\ callerPc[c] = "store"
    /\ wave_player_lock = Free
    /\ sound_generation' = Incremented(callerTmp[c])
    /\ callerPc' = [callerPc EXCEPT ![c] = "capture"]
    /\ UNCHANGED << callerTmp, nthreads >>
    /\ UNCHANGED << threadVars, lockVars, initialized, mainVars, sinkVars,
                    hangVars, steam, pluginVars, resultVars, engineVars, histVars >>

\* "self._sound_generation += 1": the write.
SubmitStore(c) ==
    /\ callerPc[c] = "store"
    /\ sound_generation' = Incremented(callerTmp[c])
    /\ callerPc' = [callerPc EXCEPT ![c] = "capture"]
    /\ UNCHANGED << callerTmp, nthreads >>
    /\ UNCHANGED << threadVars, lockVars, initialized, mainVars, sinkVars,
                    hangVars, steam, pluginVars, resultVars, engineVars, histVars >>

\* Mutant of ThreadArgs: the closure also keeps the object.
ThreadArgs_WithObject(c) ==
    [role |-> params[c].role, angle_x |-> params[c].angle_x,
     angle_y |-> params[c].angle_y, volume |-> params[c].volume,
     obj |-> last_played_object]

\* What play_async passes on besides my_generation:
\* "role, angle_x, angle_y, volume = params".
ThreadArgs(c) ==
    [role |-> params[c].role, angle_x |-> params[c].angle_x,
     angle_y |-> params[c].angle_y, volume |-> params[c].volume]

\* "my_generation = self._sound_generation" and Thread(...).start().
SubmitCapture(c) ==
    /\ callerPc[c] = "capture"
    /\ nthreads' = nthreads + 1
    /\ tgen' = [tgen EXCEPT ![nthreads + 1] = sound_generation]
    /\ tparams' = [tparams EXCEPT ![nthreads + 1] = ThreadArgs(c)]
    /\ tpc' = [tpc EXCEPT ![nthreads + 1] = "start"]
    /\ callerPc' = [callerPc EXCEPT ![c] = "idle"]
    /\ callerTmp' = [callerTmp EXCEPT ![c] = 0]
    /\ params' = [params EXCEPT ![c] = NoParams]
    /\ UNCHANGED sound_generation
    /\ UNCHANGED << lockVars, initialized, mainVars, sinkVars, hangVars, steam,
                    sourceVars, confVars, desktopVars, extractVars,
                    resultVars, engineVars, histVars >>

\* The next step of a handler that is inside _play_object_async.
SubmitStep(c) == SubmitLoad(c) \/ SubmitStore(c) \/ SubmitCapture(c)

----------------------------------------------------------------------------
(* A play thread: play_async -> _play_sound_async -> process_sound.        *)

\* Mutant of SendFor: a pass with reverb disabled leaves the send alone.
SendFor_KeepsOld(enabled, old) == IF enabled THEN "slot" ELSE old

\* Where alSource3i(AL_AUXILIARY_SEND_FILTER) connects the source: to the
\* effect slot "if self._reverb_enabled", else to 0.
SendFor(enabled, old) == IF enabled THEN "slot" ELSE "none"

\* The source after a whole pass of thread t.
Rendered(t) ==
    [attached |-> TRUE, state |-> "stopped", gain |-> dry_level,
     send |-> SendFor(reverb_enabled, source.send),
     position |-> Position(tparams[t].angle_x, tparams[t].angle_y)]

\* Where a pass can be when one of its calls raises: in the conversion and
\* upload, the buffer detached, or in the render call, the source playing.
RaisePoints == {"upload", "render"}
RaisedAt(t, point) ==
    IF point = "upload"
    THEN [source EXCEPT !.attached = IF source.state = "playing"
                                     THEN source.attached ELSE FALSE]
    ELSE [Rendered(t) EXCEPT !.state = "playing"]

\* Mutant of EngineReady: the initialized flag is not looked at.
EngineReady_DllOnly == dll

\* process_sound's entry: "if self.dll is None: return None" and
\* "if not self.initialized: return None".
EngineReady == dll /\ initialized

\* process_sound is entered; when it returns None at once, _play_sound_async
\* logs "Failed processing" and returns.
ProcessSoundEnter(t) ==
    /\ tpc[t] = "start"
    /\ IF EngineReady
       THEN /\ tpc' = [tpc EXCEPT ![t] = "wait_mutex"]
            /\ UNCHANGED renderResult
       ELSE /\ tpc' = [tpc EXCEPT ![t] = "failed"]
            /\ renderResult' = [renderResult EXCEPT ![t] = "None"]
    /\ UNCHANGED << tgen, schedVars, lockVars, initialized, mainVars, sinkVars,
                    hangVars, steam, pluginVars, engineVars, histVars >>

\* Mutant of RenderAcquire: the thread does not wait for the mutex.
RenderAcquire_NoWait(t) ==
    /\ tpc[t] = "wait_mutex"
    /\ openal_audio_mutex' = ByThread(t)
    /\ tpc' = [tpc EXCEPT ![t] = "render"]
    /\ UNCHANGED << tgen, schedVars, wave_player_lock, initialized, mainVars,
                    sinkVars, hangVars, steam, pluginVars, resultVars, engineVars, histVars >>

\* "with self._mutex:" in process_sound.
RenderAcquire(t) ==
    /\ tpc[t] = "wait_mutex"
    /\ openal_audio_mutex = Free
    /\ openal_audio_mutex' = ByThread(t)
    /\ tpc' = [tpc EXCEPT ![t] = "render"]
    /\ UNCHANGED << tgen, schedVars, wave_player_lock, initialized, mainVars,
                    sinkVars, hangVars, steam, pluginVars, resultVars, engineVars, histVars >>

\* The native calls up to alcRenderSamplesSOFT and alSourceStop return; the
\* mutex is released and the stereo bytes are returned.
RenderReturn(t) ==
    /\ tpc[t] = "render"
    /\ hung # t
    /\ openal_audio_mutex' = Free
    /\ tpc' = [tpc EXCEPT ![t] = "check1"]
    /\ renderResult' = [renderResult EXCEPT ![t] = "bytes"]
    /\ source' = Rendered(t)
    /\ UNCHANGED << tgen, schedVars, wave_player_lock, initialized, mainVars,
                    sinkVars, hangVars, steam, paramVars, confVars, desktopVars,
                    extractVars, engineVars, histVars >>

\* Mutant of RenderReturnLogged: an error code makes the pass give up.
RenderReturnLogged_GivesUp(t) ==
    /\ tpc[t] = "render"
    /\ hung # t
    /\ openal_audio_mutex' = Free
    /\ tpc' = [tpc EXCEPT ![t] = "failed"]
    /\ renderResult' = [renderResult EXCEPT ![t] = "bytes_after_error"]
    /\ source' = Rendered(t)
    /\ UNCHANGED << tgen, schedVars, wave_player_lock, initialized, mainVars,
                    sinkVars, hangVars, steam, paramVars, confVars, desktopVars,
                    extractVars, engineVars, histVars >>

\* A native call of the pass leaves an error code: _check_al_error or
\* _check_alc_error logs a warning and the pass goes on to return its bytes.
RenderReturnLogged(t) ==
    /\ tpc[t] = "render"
    /\ hung # t
    /\ openal_audio_mutex' = Free
    /\ tpc' = [tpc EXCEPT ![t] = "check1"]
    /\ renderResult' = [renderResult EXCEPT ![t] = "bytes_after_error"]
    /\ source' = Rendered(t)
    /\ UNCHANGED << tgen, schedVars, wave_player_lock, initialized, mainVars,
                    sinkVars, hangVars, steam, paramVars, confVars, desktopVars,
                    extractVars, engineVars, histVars >>

\* Mutant of RenderRaise: the exception leaves the mutex locked.
RenderRaise_KeepsMutex(t) ==
    /\ tpc[t] = "render"
    /\ hung # t
    /\ tpc' = [tpc EXCEPT ![t] = "failed"]
    /\ renderResult' = [renderResult EXCEPT ![t] = "raised"]
    /\ \E point \in RaisePoints : source' = RaisedAt(t, point)
    /\ UNCHANGED << tgen, schedVars, lockVars, initialized, mainVars,
                    sinkVars, hangVars, steam, paramVars, confVars, desktopVars,
                    extractVars, engineVars, histVars >>

\* A call inside the pass raises (ctypes turns an access violation or a bad
\* argument into a Python exception): the with block releases the mutex,
\* process_sound has no handler, and play_async's "except Exception: pass"
\* ends the thread.
RenderRaise(t) ==
    /\ tpc[t] = "render"
    /\ hung # t
    /\ openal_audio_mutex' = Free
    /\ tpc' = [tpc EXCEPT ![t] = "failed"]
    /\ renderResult' = [renderResult EXCEPT ![t] = "raised"]
    /\ \E point \in RaisePoints : source' = RaisedAt(t, point)
    /\ UNCHANGED << tgen, schedVars, wave_player_lock, initialized, mainVars,
                    sinkVars, hangVars, steam, paramVars, confVars, desktopVars,
                    extractVars, engineVars, histVars >>

\* Mutant of IsStale: the comparison is inverted, nothing is ever discarded
\* as long as no newer generation than the counter exists.
IsStale_Greater(generation) == generation > sound_generation

\* "generation != self._sound_generation": the request has been superseded.
IsStale(generation) == generation # sound_generation

\* The first staleness check, before stop().
StaleBeforeStop(t) == IsStale(tgen[t])

\* Mutant of StaleBeforeFeed: the check under the lock is left out.
StaleBeforeFeed_Never(t) == FALSE

\* The second staleness check, under _wave_player_lock.
StaleBeforeFeed(t) == IsStale(tgen[t])

\* Whether requests 1, 2, 3 have all returned from their render and none of
\* them has yet made its first staleness check.
BurstRendered ==
    \A g \in BurstGens : \E u \in Threads : tgen[u] = g /\ tpc[u] = "check1"

\* Mutant of Check1: stop() is called before the generation is compared.
Check1_StopFirst(t) ==
    /\ tpc[t] = "check1"
    /\ tpc' = [tpc EXCEPT ![t] = IF StaleBeforeStop(t) THEN "superseded1"
                                                       ELSE "wait_lock"]
    /\ stopSeen' = [stopSeen EXCEPT ![t] = sound_generation]
    /\ playing' = 0
    /\ UNCHANGED << tgen, schedVars, lockVars, initialized, mainVars,
                    wpClosed, hangVars, steam, pluginVars, resultVars, engineVars, fedLog, feedSeen, burst, overlap >>

\* The first staleness check.
Check1(t) ==
    /\ tpc[t] = "check1"
    /\ tpc' = [tpc EXCEPT ![t] = IF StaleBeforeStop(t) THEN "superseded1"
                                                       ELSE "stop"]
    /\ burst' = IF burst = "open" /\ tgen[t] \in BurstGens
                THEN (IF BurstRendered THEN "yes" ELSE "no")
                ELSE burst
    /\ UNCHANGED << tgen, schedVars, lockVars, initialized, mainVars, sinkVars,
                    hangVars, steam, pluginVars, resultVars, engineVars, fedLog, feedSeen, stopSeen, overlap >>

\* "self.wave_player.stop()" is entered, without the lock.
StopInvoke(t) ==
    /\ tpc[t] = "stop"
    /\ tpc' = [tpc EXCEPT ![t] = "in_stop"]
    /\ stopSeen' = [stopSeen EXCEPT ![t] = sound_generation]
    /\ playing' = 0
    /\ UNCHANGED << tgen, schedVars, lockVars, initialized, mainVars,
                    wpClosed, hangVars, steam, pluginVars, resultVars, engineVars, fedLog, feedSeen, burst, overlap >>

\* stop() returns.
StopReturn(t) ==
    /\ tpc[t] = "in_stop"
    /\ tpc' = [tpc EXCEPT ![t] = "wait_lock"]
    /\ UNCHANGED << tgen, schedVars, lockVars, initialized, mainVars, sinkVars,
                    hangVars, steam, pluginVars, resultVars, engineVars, histVars >>

\* Mutant of DeliveryAcquire: the thread does not wait for the lock.
DeliveryAcquire_NoWait(t) ==
    /\ tpc[t] = "wait_lock"
    /\ wave_player_lock' = ByThread(t)
    /\ tpc' = [tpc EXCEPT ![t] = "check2"]
    /\ UNCHANGED << tgen, schedVars, openal_audio_mutex, initialized, mainVars,
                    sinkVars, hangVars, steam, pluginVars, resultVars, engineVars, histVars >>

\* "with self._wave_player_lock:" in _play_sound_async.
DeliveryAcquire(t) ==
    /\ tpc[t] = "wait_lock"
    /\ wave_player_lock = Free
    /\ wave_player_lock' = ByThread(t)
    /\ tpc' = [tpc EXCEPT ![t] = "check2"]
    /\ UNCHANGED << tgen, schedVars, openal_audio_mutex, initialized, mainVars,
                    sinkVars, hangVars, steam, pluginVars, resultVars, engineVars, histVars >>

\* Mutant of Check2: the audio is fed first and the generation compared after.
Check2_CheckAfterFeed(t) ==
    /\ tpc[t] = "check2"
    /\ feedSeen' = [feedSeen EXCEPT ![t] = sound_generation]
    /\ fedLog' = Append(fedLog, tgen[t])
    /\ playing' = tgen[t]
    /\ tpc' = [tpc EXCEPT ![t] = IF StaleBeforeFeed(t) THEN "superseded2"
                                                       ELSE "delivered"]
    /\ wave_player_lock' = Free
    /\ UNCHANGED << tgen, schedVars, openal_audio_mutex, initialized, mainVars,
                    wpClosed, hangVars, steam, pluginVars, resultVars, engineVars, stopSeen, burst, overlap >>

\* The second staleness check; a stale thread returns, which releases the lock.
Check2(t) ==
    /\ tpc[t] = "check2"
    /\ IF StaleBeforeFeed(t)
       THEN /\ tpc' = [tpc EXCEPT ![t] = "superseded2"]
            /\ wave_player_lock' = Free
       ELSE /\ tpc' = [tpc EXCEPT ![t] = "feed"]
            /\ UNCHANGED wave_player_lock
    /\ UNCHANGED << tgen, schedVars, openal_audio_mutex, initialized, mainVars,
                    sinkVars, hangVars, steam, pluginVars, resultVars, engineVars, histVars >>

\* "self.wave_player.feed(final_audio)" is entered.
FeedInvoke(t) ==
    /\ tpc[t] = "feed"
    /\ tpc' = [tpc EXCEPT ![t] = "in_feed"]
    /\ feedSeen' = [feedSeen EXCEPT ![t] = sound_generation]
    /\ fedLog' = Append(fedLog, tgen[t])
    /\ playing' = tgen[t]
    /\ UNCHANGED << tgen, schedVars, lockVars, initialized, mainVars,
                    wpClosed, hangVars, steam, pluginVars, resultVars, engineVars, stopSeen, burst, overlap >>

\* feed() returns and the with block releases the lock.
FeedReturn(t) ==
    /\ tpc[t] = "in_feed"
    /\ tpc' = [tpc EXCEPT ![t] = "delivered"]
    /\ wave_player_lock' = Free
    /\ UNCHANGED << tgen, schedVars, openal_audio_mutex, initialized, mainVars,
                    sinkVars, hangVars, steam, pluginVars, resultVars, engineVars, histVars >>

\* One step of play thread t.
PlayThread(t) ==
    \/ ProcessSoundEnter(t)
    \/ RenderAcquire(t)
    \/ RenderReturn(t)
    \/ Check1(t)
    \/ StopInvoke(t)
    \/ StopReturn(t)
    \/ DeliveryAcquire(t)
    \/ Check2(t)
    \/ FeedInvoke(t)
    \/ FeedReturn(t)

\* The render pass step by step. Line 394, alSourcei(AL_BUFFER, AL_NONE):
\* the buffer is detached. OpenAL refuses to change the buffer of a source
\* that is playing, the attachment stays as it is then.
PassDetach(t) ==
    /\ tpc[t] = "render"
    /\ source' = [source EXCEPT
                    !.attached = IF source.state = "playing"
                                 THEN source.attached ELSE FALSE]
    /\ pass' = [NoPass EXCEPT !.calls = << "detach" >>]
    /\ tpc' = [tpc EXCEPT ![t] = "pass_upload"]
    /\ UNCHANGED << tgen, schedVars, lockVars, initialized, mainVars, sinkVars,
                    hangVars, steam, resultVars, nativeVars, reverbVars, callVars,
                    paramVars, confVars, desktopVars, extractVars, histVars >>

\* Lines 397-408: the samples of the sound, multiplied by the request's
\* volume in _play_sound_async, are converted and handed to alBufferData,
\* which fails on a buffer that is attached to a source; _check_al_error
\* logs the failure.
PassUpload(t, sounds) ==
    /\ tpc[t] = "pass_upload"
    /\ \E audio_data \in sounds :
          pass' = [pass EXCEPT
                     !.input = Adjusted(audio_data, tparams[t].volume),
                     !.pcm = FloatToInt16(Adjusted(audio_data, tparams[t].volume)),
                     !.frames = Len(audio_data),
                     !.upload = IF source.attached THEN "rejected" ELSE "ok",
                     !.calls = Append(pass.calls, "upload")]
    /\ tpc' = [tpc EXCEPT ![t] = "pass_route"]
    /\ UNCHANGED << tgen, schedVars, lockVars, initialized, mainVars, sinkVars,
                    hangVars, steam, resultVars, nativeVars, reverbVars, callVars,
                    pluginVars, histVars >>

\* Lines 413-433: the buffer is attached, the position is set from the two
\* angles, AL_GAIN is set from _dry_level and the auxiliary send is
\* connected to the effect slot or to none, as _reverb_enabled says.
PassRoute(t) ==
    /\ tpc[t] = "pass_route"
    /\ source' = [source EXCEPT
                    !.attached = TRUE,
                    !.position = Position(tparams[t].angle_x, tparams[t].angle_y),
                    !.gain = dry_level,
                    !.send = SendFor(reverb_enabled, source.send)]
    /\ pass' = [pass EXCEPT !.gain = dry_level,
                            !.routed = reverb_enabled,
                            !.send = IF reverb_enabled THEN "slot" ELSE "none",
                            !.calls = pass.calls \o
                                << "attach", "position", "gain", "route" >>]
    /\ tpc' = [tpc EXCEPT ![t] = "pass_play"]
    /\ UNCHANGED << tgen, schedVars, lockVars, initialized, mainVars, sinkVars,
                    hangVars, steam, resultVars, nativeVars, reverbVars, callVars,
                    paramVars, confVars, desktopVars, extractVars, histVars >>

\* alSourcePlay, then the condition of
\* "self._reverb_tail_frames if self._reverb_enabled else 0" is read.
PassTailEnabled(t) ==
    /\ tpc[t] = "pass_play"
    /\ source' = [source EXCEPT !.state = "playing"]
    /\ pass' = [pass EXCEPT !.enabled = reverb_enabled,
                            !.calls = Append(pass.calls, "play")]
    /\ tpc' = [tpc EXCEPT ![t] = "pass_tail"]
    /\ UNCHANGED << tgen, schedVars, lockVars, initialized, mainVars, sinkVars,
                    hangVars, steam, resultVars, nativeVars, reverbVars, callVars,
                    paramVars, confVars, desktopVars, extractVars, histVars >>

\* The value of "self._reverb_tail_frames if self._reverb_enabled else 0",
\* its condition having been read one step before.
TailRead == IF pass.enabled THEN reverb_tail_frames ELSE 0

\* tail_frames and num_frames are computed and the output buffer of
\* num_frames * 2 samples of 16 bits is allocated.
PassTailFrames(t) ==
    /\ tpc[t] = "pass_tail"
    /\ pass' = [pass EXCEPT !.tail = TailRead,
                            !.out = pass.frames + TailRead,
                            !.bytes = (pass.frames + TailRead) * 2 * 2]
    /\ tpc' = [tpc EXCEPT ![t] = "pass_render"]
    /\ UNCHANGED << tgen, schedVars, lockVars, initialized, mainVars, sinkVars,
                    hangVars, steam, resultVars, nativeVars, reverbVars, callVars,
                    pluginVars, histVars >>

\* Mutant of Falsy: bytes are taken for audio whatever their length.
Falsy_Never(frames) == FALSE

\* "if not final_audio:" for the bytes of a render of so many frames: b""
\* is false in Python.
Falsy(frames) == frames = 0

\* alcRenderSamplesSOFT and alSourceStop return, bytes(out_buf) is returned
\* and the with block releases the mutex; _play_sound_async logs "Failed
\* processing" and returns when the bytes are empty.
PassReturn(t) ==
    /\ tpc[t] = "pass_render"
    /\ source' = [source EXCEPT !.state = "stopped"]
    /\ openal_audio_mutex' = Free
    /\ pass' = NoPass
    /\ renderResult' = [renderResult EXCEPT
                          ![t] = IF pass.out = 0 THEN "empty"
                                 ELSE IF pass.upload = "rejected"
                                 THEN "bytes_after_error" ELSE "bytes"]
    /\ tpc' = [tpc EXCEPT ![t] = IF Falsy(pass.out) THEN "failed"
                                                    ELSE "check1"]
    /\ UNCHANGED << tgen, schedVars, wave_player_lock, initialized, mainVars,
                    sinkVars, hangVars, steam, nativeVars, reverbVars, callVars,
                    paramVars, confVars, desktopVars, extractVars, histVars >>

\* Where a play thread is while it is inside the with block of process_sound.
PassPcs == {"render", "pass_upload", "pass_route", "pass_play", "pass_tail",
            "pass_render"}

\* A call inside the pass raises, wherever the pass is: the with block
\* releases the mutex and nothing else is undone; play_async swallows the
\* exception.
PassRaise(t) ==
    /\ tpc[t] \in PassPcs
    /\ openal_audio_mutex' = Free
    /\ pass' = NoPass
    /\ renderResult' = [renderResult EXCEPT ![t] = "raised"]
    /\ tpc' = [tpc EXCEPT ![t] = "failed"]
    /\ UNCHANGED << tgen, schedVars, wave_player_lock, initialized, mainVars,
                    sinkVars, hangVars, steam, nativeVars, reverbVars, callVars,
                    pluginVars, histVars >>

\* Sounds whose samples are all zero, one for each length.
SilentSounds == { [i \in 1..n |-> Whole(0)] : n \in FrameCounts }

\* One step of play thread t inside process_sound, the pass taken apart,
\* the sound being one of sounds.
RenderSound(t, sounds) ==
    \/ ProcessSoundEnter(t)
    \/ RenderAcquire(t)
    \/ PassDetach(t)
    \/ PassUpload(t, sounds)
    \/ PassRoute(t)
    \/ PassTailEnabled(t)
    \/ PassTailFrames(t)
    \/ PassReturn(t)

\* The same for a sound of any length.
RenderPass(t) == RenderSound(t, SilentSounds)

\* The sounds and the sound of a file without frames: "data" is [].
SoundsOrNone == SilentSounds \cup {<< >>}

\* One step of play thread t after process_sound has returned its bytes.
Deliver(t) ==
    \/ Check1(t)
    \/ StopInvoke(t)
    \/ StopReturn(t)
    \/ DeliveryAcquire(t)
    \/ Check2(t)
    \/ FeedInvoke(t)
    \/ FeedReturn(t)

\* alcRenderSamplesSOFT never returns for thread t: it keeps the mutex.
NativeHang(t) ==
    /\ tpc[t] = "render"
    /\ hung = 0
    /\ hung' = t
    /\ hungAt' = nthreads
    /\ UNCHANGED << threadVars, schedVars, lockVars, initialized, mainVars,
                    sinkVars, resultVars, engineVars, pluginVars, histVars,
                    steam >>

----------------------------------------------------------------------------
(* The main thread outside _play_object_async: on_synthChanged, terminate. *)

\* on_synthChanged starts: _update_volume_cache(), then it waits for the lock.
SynthChangedBegin ==
    /\ mainPc = "idle"
    /\ mainPc' = "sc_wait"
    /\ cached_volume' = ComputeVolume(conf, synthVolume)
    /\ UNCHANGED << conf, panel, synthVolume >>
    /\ UNCHANGED << schedVars, threadVars, lockVars, initialized, sinkVars,
                    hangVars, steam, sourceVars, paramVars, desktopVars, extractVars,
                    resultVars, engineVars, histVars >>

\* "with self._wave_player_lock:" in on_synthChanged.
SynthChangedAcquire ==
    /\ mainPc = "sc_wait"
    /\ wave_player_lock = Free
    /\ wave_player_lock' = ByMain
    /\ mainPc' = "sc_close"
    /\ UNCHANGED << schedVars, threadVars, openal_audio_mutex, initialized,
                    sinkVars, hangVars, steam, pluginVars, resultVars, engineVars, histVars >>

\* "self.wave_player.close()" is entered.
SynthChangedCloseInvoke ==
    /\ mainPc = "sc_close"
    /\ mainPc' = "sc_in_close"
    /\ wpClosed' = TRUE
    /\ playing' = 0
    /\ UNCHANGED << schedVars, threadVars, lockVars, initialized, hangVars, steam, pluginVars, resultVars, engineVars,
                    histVars >>

\* close() returns.
SynthChangedCloseReturn ==
    /\ mainPc = "sc_in_close"
    /\ mainPc' = "sc_create"
    /\ UNCHANGED << schedVars, threadVars, lockVars, initialized, sinkVars,
                    hangVars, steam, pluginVars, resultVars, engineVars, histVars >>

\* create_wave_player() and the end of the with block.
SynthChangedCreate ==
    /\ mainPc = "sc_create"
    /\ wpClosed' = FALSE
    /\ wave_player_lock' = Free
    /\ mainPc' = "idle"
    /\ UNCHANGED << schedVars, threadVars, openal_audio_mutex, initialized,
                    playing, hangVars, steam, pluginVars, resultVars, engineVars, histVars >>

\* terminate starts: the timer is stopped and the speech hook restored.
TerminateBegin ==
    /\ mainPc = "idle"
    /\ mainPc' = "tm_wait"
    /\ UNCHANGED << schedVars, threadVars, lockVars, initialized, sinkVars,
                    hangVars, steam, pluginVars, resultVars, engineVars, histVars >>

\* "with self._wave_player_lock:" in terminate.
TerminateAcquire ==
    /\ mainPc = "tm_wait"
    /\ wave_player_lock = Free
    /\ wave_player_lock' = ByMain
    /\ mainPc' = "tm_close"
    /\ UNCHANGED << schedVars, threadVars, openal_audio_mutex, initialized,
                    sinkVars, hangVars, steam, pluginVars, resultVars, engineVars, histVars >>

\* "self.wave_player.close()" is entered.
TerminateCloseInvoke ==
    /\ mainPc = "tm_close"
    /\ mainPc' = "tm_in_close"
    /\ wpClosed' = TRUE
    /\ playing' = 0
    /\ UNCHANGED << schedVars, threadVars, lockVars, initialized, hangVars, steam, pluginVars, resultVars, engineVars,
                    histVars >>

\* Mutant of TerminateCloseReturn: the lock is kept while cleanup() runs.
TerminateCloseReturn_KeepsLock ==
    /\ mainPc = "tm_in_close"
    /\ mainPc' = "tm_cleanup"
    /\ UNCHANGED << schedVars, threadVars, lockVars, initialized,
                    sinkVars, hangVars, steam, pluginVars, resultVars, engineVars,
                    histVars >>

\* close() returns and the with block releases the lock.
TerminateCloseReturn ==
    /\ mainPc = "tm_in_close"
    /\ wave_player_lock' = Free
    /\ mainPc' = "tm_cleanup"
    /\ UNCHANGED << schedVars, threadVars, openal_audio_mutex, initialized,
                    sinkVars, hangVars, steam, pluginVars, resultVars, engineVars, histVars >>

\* Mutant of CleanupNeeded: cleanup() releases whatever the flag says.
CleanupNeeded_Always == TRUE

\* cleanup() goes on to the native calls: not "if not self.initialized: return".
CleanupNeeded == initialized

\* audio_engine.cleanup(): "if not self.initialized: return".
CleanupEnter ==
    /\ mainPc = "tm_cleanup"
    /\ IF CleanupNeeded
       THEN /\ mainPc' = "tm_wait_mutex"
            /\ UNCHANGED lastReturn
       ELSE /\ mainPc' = "tm_done"
            /\ lastReturn' = Returned("cleanup", "None", "none", FALSE, "none")
    /\ UNCHANGED << schedVars, threadVars, lockVars, initialized, sinkVars,
                    hangVars, steam, pluginVars, resultVars, nativeVars, reverbVars, engineArgs,
                    pass, histVars >>

\* "with self._mutex:" in cleanup.
CleanupAcquire ==
    /\ mainPc = "tm_wait_mutex"
    /\ openal_audio_mutex = Free
    /\ openal_audio_mutex' = ByMain
    /\ mainPc' = "tm_native"
    /\ UNCHANGED << schedVars, threadVars, wave_player_lock, initialized,
                    sinkVars, hangVars, steam, pluginVars, resultVars, engineVars, histVars >>

\* The source is stopped, the native objects are released, initialized
\* becomes False, the mutex is released; synthChanged.unregister ends terminate.
CleanupRelease ==
    /\ mainPc = "tm_native"
    /\ released' = released + 1
    /\ initialized' = FALSE
    /\ source' = DeletedSource
    /\ openal_audio_mutex' = Free
    /\ lastReturn' = Returned("cleanup", "None", "OpenAL Soft cleaned up",
                              TRUE, "none")
    /\ mainPc' = "tm_done"
    /\ UNCHANGED << schedVars, threadVars, wave_player_lock, sinkVars,
                    hangVars, steam, paramVars, confVars, desktopVars, extractVars, resultVars, dll, created, reverbVars, engineArgs,
                    pass, histVars >>

\* The check boxes of the settings panel: "say all", "speak roles", "HRTF",
\* "play sounds" and "adjust with speech volume".
Boxes(sayAll, speakRoles, HRTF, playSounds, volume) ==
    [sayAll |-> sayAll, speakRoles |-> speakRoles, HRTF |-> HRTF,
     playSounds |-> playSounds, volume |-> volume]

\* The reverb arguments the panel and update_reverb_from_config derive from
\* five 0..100 values: each "/ 100.0".
SettingsOf(RoomSize, Damping, WetLevel, DryLevel, Width) ==
    [room_size |-> RoomSize, damping |-> Damping, wet_level |-> WetLevel,
     dry_level |-> DryLevel, width |-> Width]

\* The panel after the handler has run, with or without its error box.
Called(handler, error) == [panel EXCEPT !.last = handler, !.error = error]

\* SettingsPanel.makeSettings: the widgets are set from the configuration
\* and "self.unspoken_copy = config.conf["unspoken"].copy()".
MakeSettings ==
    /\ mainPc = "idle"
    /\ panel' = [unspoken_copy |-> conf, last |-> "makeSettings",
                 error |-> FALSE]
    /\ UNCHANGED << conf, synthVolume, cached_volume >>
    /\ UNCHANGED << schedVars, threadVars, lockVars, initialized, mainVars,
                    sinkVars, hangVars, steam, sourceVars, paramVars, desktopVars,
                    extractVars, resultVars, engineVars, histVars >>

\* Mutant of SaveRefused: the error box is shown and the handler goes on.
SaveRefused_GoesOn(boxes) == FALSE

\* "if not noSoundsCheckBox.IsChecked() and not speakRolesCheckBox
\* .IsChecked()": the message box and the return of onSave.
SaveRefused(boxes) == ~boxes.playSounds /\ ~boxes.speakRoles

\* SettingsPanel.onSave: with neither sounds nor spoken roles it shows an
\* error and saves nothing; else it writes the check boxes and the sliders
\* to the configuration, sayAll and noSounds inverted. No cache of the
\* plugin is refreshed and nothing is pushed to the engine.
OnSave(boxes, reverb, sliders) ==
    /\ mainPc = "idle"
    /\ panel.unspoken_copy # NoCopy
    /\ panel' = Called("onSave", ~boxes.playSounds /\ ~boxes.speakRoles)
    /\ conf' = IF SaveRefused(boxes)
               THEN conf
               ELSE [sayAll |-> ~boxes.sayAll,
                     speakRoles |-> boxes.speakRoles,
                     noSounds |-> ~boxes.playSounds,
                     HRTF |-> boxes.HRTF,
                     volumeAdjust |-> boxes.volume,
                     Reverb |-> reverb,
                     RoomSize |-> sliders.room_size,
                     Damping |-> sliders.damping,
                     WetLevel |-> sliders.wet_level,
                     DryLevel |-> sliders.dry_level,
                     Width |-> sliders.width]
    /\ UNCHANGED << synthVolume, cached_volume >>
    /\ UNCHANGED << schedVars, threadVars, lockVars, initialized, mainVars,
                    sinkVars, hangVars, steam, sourceVars, paramVars, desktopVars,
                    extractVars, resultVars, engineVars, histVars >>

\* The user changes the volume of the synthesizer: no notification reaches
\* the plugin.
SynthVolumeSet(volume) ==
    /\ mainPc = "idle"
    /\ synthVolume # volume
    /\ synthVolume' = volume
    /\ UNCHANGED << conf, panel, cached_volume >>
    /\ UNCHANGED << schedVars, threadVars, lockVars, initialized, mainVars,
                    sinkVars, hangVars, steam, sourceVars, paramVars, desktopVars,
                    extractVars, resultVars, engineVars, histVars >>

\* A step of the main thread inside on_synthChanged.
SynthChangedStep ==
    \/ SynthChangedAcquire
    \/ SynthChangedCloseInvoke
    \/ SynthChangedCloseReturn
    \/ SynthChangedCreate

\* A step of the main thread inside terminate.
TerminateStep ==
    \/ TerminateAcquire
    \/ TerminateCloseInvoke
    \/ TerminateCloseReturn
    \/ CleanupEnter
    \/ CleanupAcquire
    \/ CleanupRelease

\* A step of the main thread inside on_synthChanged or terminate.
MainStep ==
    \/ SynthChangedAcquire
    \/ SynthChangedCloseInvoke
    \/ SynthChangedCloseReturn
    \/ SynthChangedCreate
    \/ TerminateAcquire
    \/ TerminateCloseInvoke
    \/ TerminateCloseReturn
    \/ CleanupEnter
    \/ CleanupAcquire
    \/ CleanupRelease

----------------------------------------------------------------------------
(* The engine's other methods, called on the main thread: initialize (by   *)
(* GlobalPlugin.__init__), set_reverb_settings and enable_reverb (by       *)
(* __init__ and by the settings panel), cleanup (by terminate).            *)

\* How the native part of initialize() can end.
InitOutcomes ==
    {"ok", "device_null", "format_unsupported", "context_failed", "exception"}

\* Mutant of InitLog: every failure logs the same message.
InitLog_Same(outcome) == "OpenAL initialization failed"

\* What initialize() logs for each outcome.
InitLog(outcome) ==
    CASE outcome = "ok" -> "OpenAL Soft initialized"
      [] outcome = "device_null" -> "alcLoopbackOpenDeviceSOFT returned NULL"
      [] outcome = "format_unsupported" -> "Loopback render format not supported"
      [] outcome = "context_failed" -> "alcCreateContext failed"
      [] outcome = "exception" -> "OpenAL initialization failed"

\* initialize() is called: "if self.dll is None: return False",
\* "if self.initialized: return True", else it waits for the mutex.
InitializeBegin ==
    /\ mainPc = "idle"
    /\ created < MaxInits
    /\ IF ~dll
       THEN /\ lastReturn' = Returned("initialize", "False", "none", FALSE,
                                      "dll_none")
            /\ UNCHANGED mainPc
       ELSE IF initialized
       THEN /\ lastReturn' = Returned("initialize", "True",
                                      "OpenAL already initialized", FALSE, "none")
            /\ UNCHANGED mainPc
       ELSE /\ mainPc' = "in_wait"
            /\ UNCHANGED lastReturn
    /\ UNCHANGED << schedVars, threadVars, lockVars, initialized, sinkVars,
                    hangVars, steam, pluginVars, resultVars, nativeVars, reverbVars, engineArgs,
                    pass, histVars >>

\* "with self._mutex:" in initialize.
InitializeAcquire ==
    /\ mainPc = "in_wait"
    /\ openal_audio_mutex = Free
    /\ openal_audio_mutex' = ByMain
    /\ mainPc' = "in_native"
    /\ UNCHANGED << schedVars, threadVars, wave_player_lock, initialized,
                    sinkVars, hangVars, steam, pluginVars, resultVars, engineVars, histVars >>

\* The native part of initialize: the device, the context, the source, the
\* buffer, the effect and its slot are created and initialized is set, or
\* what was opened is closed again and False is returned.
InitializeNative(outcome) ==
    /\ mainPc = "in_native"
    /\ IF outcome = "ok"
       THEN /\ created' = created + 1
            /\ initialized' = TRUE
            /\ effect' = EffectNotConfigured
            /\ source' = NewSource
            /\ lastReturn' = Returned("initialize", "True", InitLog(outcome),
                                      TRUE, "none")
       ELSE /\ lastReturn' = Returned("initialize", "False", InitLog(outcome),
                                      TRUE, outcome)
            /\ UNCHANGED << created, initialized, effect, source >>
    /\ openal_audio_mutex' = Free
    /\ mainPc' = "idle"
    /\ UNCHANGED << schedVars, threadVars, wave_player_lock, sinkVars,
                    hangVars, steam, paramVars, confVars, desktopVars, extractVars, resultVars, dll, released, reverb_enabled,
                    reverb_tail_frames, dry_level, engineArgs, pass, histVars >>

\* set_reverb_settings(room_size, damping, wet_level, dry_level, width) is
\* called: it returns False without the DLL or before initialize, else it
\* waits for the mutex.
SetReverbBegin(args) ==
    /\ mainPc = "idle"
    /\ engineArgs' = args
    /\ IF ~dll
       THEN /\ lastReturn' = Returned("set_reverb_settings", "False", "none",
                                      FALSE, "none")
            /\ UNCHANGED mainPc
       ELSE IF ~initialized
       THEN /\ lastReturn' = Returned("set_reverb_settings", "False",
                                      "OpenAL not initialized", FALSE, "none")
            /\ UNCHANGED mainPc
       ELSE /\ mainPc' = "rv_wait"
            /\ UNCHANGED lastReturn
    /\ UNCHANGED << schedVars, threadVars, lockVars, initialized, sinkVars,
                    hangVars, steam, pluginVars, resultVars, nativeVars, reverbVars, pass,
                    histVars >>

\* Mutant of SetReverbAcquire: the mutex is taken without waiting for it.
SetReverbAcquire_NoWait ==
    /\ mainPc = "rv_wait"
    /\ openal_audio_mutex' = ByMain
    /\ mainPc' = "rv_native"
    /\ UNCHANGED << schedVars, threadVars, wave_player_lock, initialized,
                    sinkVars, hangVars, steam, pluginVars, resultVars, engineVars, histVars >>

\* "with self._mutex:" in set_reverb_settings.
SetReverbAcquire ==
    /\ mainPc = "rv_wait"
    /\ openal_audio_mutex = Free
    /\ openal_audio_mutex' = ByMain
    /\ mainPc' = "rv_native"
    /\ UNCHANGED << schedVars, threadVars, wave_player_lock, initialized,
                    sinkVars, hangVars, steam, pluginVars, resultVars, engineVars, histVars >>

\* The value set_reverb_settings maps and stores for an argument: the
\* argument itself.
Stored(v) == v

\* The arguments as set_reverb_settings uses them.
StoredArgs(args) ==
    [room_size |-> Stored(args.room_size), damping |-> Stored(args.damping),
     wet_level |-> Stored(args.wet_level), dry_level |-> Stored(args.dry_level),
     width |-> Stored(args.width)]

\* Mutant of SetReverbApply: the settings are applied and the mutex is kept.
SetReverbApply_KeepsMutex ==
    /\ mainPc = "rv_native"
    /\ dry_level' = StoredArgs(engineArgs).dry_level
    /\ effect' = EffectOf(StoredArgs(engineArgs))
    /\ reverb_tail_frames' = TailFrames(EffectOf(StoredArgs(engineArgs)).decay_time)
    /\ lastReturn' = Returned("set_reverb_settings", "True",
                              "Reverb settings updated", TRUE, "none")
    /\ mainPc' = "idle"
    /\ UNCHANGED << schedVars, threadVars, lockVars, initialized,
                    sinkVars, hangVars, steam, pluginVars, resultVars, nativeVars, reverb_enabled,
                    engineArgs, pass, histVars >>

\* Inside the mutex: _dry_level is stored, the four parameters are handed to
\* alEffectf, the effect is attached to the slot again, _reverb_tail_frames
\* is computed, True is returned.
SetReverbApply ==
    /\ mainPc = "rv_native"
    /\ dry_level' = StoredArgs(engineArgs).dry_level
    /\ effect' = EffectOf(StoredArgs(engineArgs))
    /\ reverb_tail_frames' = TailFrames(EffectOf(StoredArgs(engineArgs)).decay_time)
    /\ lastReturn' = Returned("set_reverb_settings", "True",
                              "Reverb settings updated", TRUE, "none")
    /\ openal_audio_mutex' = Free
    /\ mainPc' = "idle"
    /\ UNCHANGED << schedVars, threadVars, wave_player_lock, initialized,
                    sinkVars, hangVars, steam, pluginVars, resultVars, nativeVars, reverb_enabled,
                    engineArgs, pass, histVars >>

\* enable_reverb(enabled): "self._reverb_enabled = bool(enabled)", no lock.
EnableReverbBegin(enabled) ==
    /\ mainPc = "idle"
    /\ reverb_enabled' = enabled
    /\ mainPc' = IF enabled THEN "idle" ELSE "er_tail"
    /\ lastReturn' = IF enabled
                     THEN Returned("enable_reverb", "None", "none", FALSE, "none")
                     ELSE lastReturn
    /\ UNCHANGED << schedVars, threadVars, lockVars, initialized, sinkVars,
                    hangVars, steam, pluginVars, resultVars, nativeVars, reverb_tail_frames,
                    dry_level, effect, engineArgs, pass, histVars >>

\* "if not enabled: self._reverb_tail_frames = 0", no lock.
EnableReverbTail ==
    /\ mainPc = "er_tail"
    /\ reverb_tail_frames' = 0
    /\ lastReturn' = Returned("enable_reverb", "None", "none", FALSE, "none")
    /\ mainPc' = "idle"
    /\ UNCHANGED << schedVars, threadVars, lockVars, initialized, sinkVars,
                    hangVars, steam, pluginVars, resultVars, nativeVars, reverb_enabled, dry_level,
                    effect, engineArgs, pass, histVars >>

\* A step of the main thread inside set_reverb_settings or enable_reverb.
ReverbStep ==
    \/ SetReverbAcquire
    \/ SetReverbApply
    \/ EnableReverbTail

\* enable_reverb(reverb) and then set_reverb_settings(args), as the panel
\* calls them: the flag is set; the tail is zeroed in a step of its own
\* when reverb is off; set_reverb_settings then waits for the mutex.
PushReverb(reverb, args) ==
    /\ reverb_enabled' = reverb
    /\ engineArgs' = args
    /\ mainPc' = IF reverb THEN "rv_wait" ELSE "push_tail"
    /\ lastReturn' = IF reverb
                     THEN Returned("enable_reverb", "None", "none", FALSE, "none")
                     ELSE lastReturn

\* "if not enabled: self._reverb_tail_frames = 0" of the enable_reverb the
\* panel called; set_reverb_settings is entered next.
PushTail ==
    /\ mainPc = "push_tail"
    /\ reverb_tail_frames' = 0
    /\ lastReturn' = Returned("enable_reverb", "None", "none", FALSE, "none")
    /\ mainPc' = "rv_wait"
    /\ UNCHANGED << schedVars, threadVars, lockVars, initialized, sinkVars,
                    hangVars, steam, pluginVars, resultVars, nativeVars, reverb_enabled, dry_level,
                    effect, engineArgs, pass, histVars >>

\* SettingsPanel.onReverbSettingChanged, bound to the reverb box and the
\* five sliders: on an initialized engine the box is written to the
\* configuration and box and sliders are pushed to the engine.
OnReverbSettingChanged(reverb, sliders) ==
    /\ mainPc = "idle"
    /\ panel.unspoken_copy # NoCopy
    /\ panel' = Called("onReverbSettingChanged", FALSE)
    /\ IF EngineReady
       THEN /\ conf' = [conf EXCEPT !.Reverb = reverb]
            /\ PushReverb(reverb, sliders)
       ELSE UNCHANGED << conf, reverb_enabled, engineArgs, mainPc, lastReturn >>
    /\ UNCHANGED << synthVolume, cached_volume >>
    /\ UNCHANGED << schedVars, threadVars, lockVars, initialized, sinkVars,
                    hangVars, steam, sourceVars, paramVars, desktopVars, extractVars,
                    resultVars, nativeVars, reverb_tail_frames,
                    dry_level, effect, pass, histVars >>

\* Mutant of OnDiscard: the configuration is restored and the engine is
\* left as the panel pushed it.
OnDiscard_ConfigOnly ==
    /\ mainPc = "idle"
    /\ panel.unspoken_copy # NoCopy
    /\ panel' = Called("onDiscard", FALSE)
    /\ conf' = panel.unspoken_copy
    /\ UNCHANGED << reverb_enabled, engineArgs, mainPc, lastReturn >>
    /\ UNCHANGED << synthVolume, cached_volume >>
    /\ UNCHANGED << schedVars, threadVars, lockVars, initialized, sinkVars,
                    hangVars, steam, sourceVars, paramVars, desktopVars, extractVars,
                    resultVars, nativeVars, reverb_tail_frames,
                    dry_level, effect, pass, histVars >>

\* SettingsPanel.onDiscard: every key of unspoken_copy is written back to
\* the configuration, then update_reverb_from_config pushes the Reverb key
\* and the five values of the configuration to an initialized engine.
OnDiscard ==
    /\ mainPc = "idle"
    /\ panel.unspoken_copy # NoCopy
    /\ panel' = Called("onDiscard", FALSE)
    /\ conf' = panel.unspoken_copy
    /\ IF EngineReady
       THEN PushReverb(conf'.Reverb,
                       SettingsOf(conf'.RoomSize, conf'.Damping, conf'.WetLevel,
                                  conf'.DryLevel, conf'.Width))
       ELSE UNCHANGED << reverb_enabled, engineArgs, mainPc, lastReturn >>
    /\ UNCHANGED << synthVolume, cached_volume >>
    /\ UNCHANGED << schedVars, threadVars, lockVars, initialized, sinkVars,
                    hangVars, steam, sourceVars, paramVars, desktopVars, extractVars,
                    resultVars, nativeVars, reverb_tail_frames,
                    dry_level, effect, pass, histVars >>

\* cleanup() is called.
CleanupBegin ==
    /\ mainPc = "idle"
    /\ mainPc' = "tm_cleanup"
    /\ UNCHANGED << schedVars, threadVars, lockVars, initialized, sinkVars,
                    hangVars, steam, pluginVars, resultVars, engineVars, histVars >>

\* After cleanup() the singleton stays in the module: the engine can be
\* called again, as by the GlobalPlugin of a reloaded add-on.
Reload ==
    /\ mainPc = "tm_done"
    /\ mainPc' = "idle"
    /\ UNCHANGED << schedVars, threadVars, lockVars, initialized, sinkVars,
                    hangVars, steam, pluginVars, resultVars, engineVars, histVars >>

\* One of the engine's methods is called with reverb arguments from argset.
EngineCall(argset) ==
    \/ InitializeBegin
    \/ \E args \in argset : SetReverbBegin(args)
    \/ \E enabled \in BOOLEAN : EnableReverbBegin(enabled)
    \/ CleanupBegin

\* A step of the main thread inside one of the engine's methods.
EngineStep ==
    \/ InitializeAcquire
    \/ \E outcome \in InitOutcomes : InitializeNative(outcome)
    \/ SetReverbAcquire
    \/ SetReverbApply
    \/ EnableReverbTail
    \/ CleanupEnter
    \/ CleanupAcquire
    \/ CleanupRelease
    \/ Reload

\* Arguments of set_reverb_settings. The settings panel and __init__ pass
\* the 0..100 integers of the configuration divided by 100; a direct caller
\* can pass any number.
Levels == {0, 9, 10, 15, 30, 50, MaxSetting}
OutOfRange == {-50, 200}
OneChanged(values) ==
    UNION { { [DefaultSettings EXCEPT !.room_size = v],
              [DefaultSettings EXCEPT !.damping = v],
              [DefaultSettings EXCEPT !.wet_level = v],
              [DefaultSettings EXCEPT !.dry_level = v],
              [DefaultSettings EXCEPT !.width = v] } : v \in values }
PanelArgs == OneChanged(Levels)
AnyArgs == PanelArgs \cup OneChanged(OutOfRange)
FewArgs == {DefaultSettings}

----------------------------------------------------------------------------
(* Specifications.                                                         *)

\* The program as NVDA runs it: every handler runs on the main thread, one at
\* a time; the play threads interleave freely with it and with each other.
Next ==
    \/ \E c \in Callers : MainThreadFree /\ EventBegin(c)
    \/ \E c \in Callers : SubmitStep(c)
    \/ MainThreadFree /\ SynthChangedBegin
    \/ MainThreadFree /\ TerminateBegin
    \/ MainStep
    \/ \E t \in Threads : PlayThread(t)

Spec == Init /\ [][Next]_vars

\* The handlers alone, entering _play_object_async from several threads at
\* once: nothing in the code serializes them. The play threads only read the
\* counter and are left out.
NextCallers ==
    \/ \E c \in Callers : EventBegin(c)
    \/ \E c \in Callers : SubmitStep(c)

SpecCallers == Init /\ [][NextCallers]_vars

\* The program with render passes that fail: a native call raises, or leaves
\* an error code that is logged. The main thread only submits.
NextFail ==
    \/ \E c \in Callers : MainThreadFree /\ EventBegin(c)
    \/ \E c \in Callers : SubmitStep(c)
    \/ \E t \in Threads : PlayThread(t)
    \/ \E t \in Threads : RenderRaise(t)
    \/ \E t \in Threads : RenderReturnLogged(t)

FailSpec == Init /\ [][NextFail]_vars

\* One step of play thread t inside process_sound, the pass as one step.
RenderWhole(t) ==
    \/ ProcessSoundEnter(t)
    \/ RenderAcquire(t)
    \/ RenderReturn(t)

\* The engine under its callers, from its construction on: the main thread
\* calls initialize, set_reverb_settings, enable_reverb and cleanup in any
\* order while the play threads call process_sound.
NextEngine ==
    \/ \E c \in Callers : MainThreadFree /\ EventBegin(c)
    \/ \E c \in Callers : SubmitStep(c)
    \/ MainThreadFree /\ EngineCall(FewArgs)
    \/ EngineStep
    \/ \E t \in Threads : RenderWhole(t)

SpecEngine == InitEngine /\ [][NextEngine]_vars

\* The reverb settings changed by the settings panel while play threads go
\* through their render pass step by step.
NextPass ==
    \/ \E c \in Callers : MainThreadFree /\ EventBegin(c)
    \/ \E c \in Callers : SubmitStep(c)
    \/ MainThreadFree /\ \E args \in FewArgs : SetReverbBegin(args)
    \/ MainThreadFree /\ \E enabled \in BOOLEAN : EnableReverbBegin(enabled)
    \/ SetReverbAcquire
    \/ SetReverbApply
    \/ EnableReverbTail
    \/ \E t \in Threads : RenderPass(t)

SpecPass == Init /\ [][NextPass]_vars

\* No play thread is inside process_sound.
Quiet == \A t \in Threads : tpc[t] \in {"none", "check1", "failed"}

\* The reverb settings called one call at a time, with any arguments: a call
\* starts when the one before it has returned.
NextReverb ==
    \/ \E c \in Callers : MainThreadFree /\ Quiet /\ EventBegin(c)
    \/ \E c \in Callers : SubmitStep(c)
    \/ MainThreadFree /\ Quiet /\ \E args \in AnyArgs : SetReverbBegin(args)
    \/ MainThreadFree /\ Quiet /\ \E enabled \in BOOLEAN : EnableReverbBegin(enabled)
    \/ SetReverbAcquire
    \/ SetReverbApply
    \/ EnableReverbTail
    \/ \E t \in Threads : RenderPass(t)

SpecReverb == Init /\ [][NextReverb]_vars

\* Render passes that may raise at any of their calls, one request after
\* another being submitted meanwhile.
NextOrder ==
    \/ \E c \in Callers : MainThreadFree /\ EventBegin(c)
    \/ \E c \in Callers : SubmitStep(c)
    \/ \E t \in Threads : RenderPass(t)
    \/ \E t \in Threads : PassRaise(t)

SpecOrder == Init /\ [][NextOrder]_vars

\* Objects of events. With the default desktop of 24 by 20 the angles of
\* the objects on the grid are whole multiples of 15 degrees: (90, 0),
\* (0, 0), (-90, 90) clamped from 110 and, through the treeInterceptor,
\* (60, -30).
RightObject == UIObject("right", "button", << 24, 4, 0, 0 >>, "none", NoLocation)
AheadObject == UIObject("ahead", "link", << 12, 4, 0, 0 >>, "none", NoLocation)
CornerObject == UIObject("corner", "button", << 0, -40, 0, 0 >>, "none", NoLocation)
BrowseObject ==
    UIObject("browse", "link", << 0, 0, 2, 2 >>, "object", << 20, 16, 0, 0 >>)
GridObjects == {RightObject, AheadObject, CornerObject, BrowseObject}

\* Objects anywhere: far outside the desktop on each side, without a
\* location, with a treeInterceptor that has no current object, and a
\* window, for which there is no sound.
FarRightBelow == UIObject("far_rb", "button", << 100, 100, 2, 2 >>, "none", NoLocation)
FarLeftAbove == UIObject("far_la", "link", << -31, -60, 3, 1 >>, "none", NoLocation)
Unplaced == UIObject("unplaced", "button", NoLocation, "none", NoLocation)
Orphan == UIObject("orphan", "button", << 1, 1, 1, 1 >>, "no_object", NoLocation)
Window == UIObject("window", "window", << 0, 0, 24, 20 >>, "none", NoLocation)
AnyObjects ==
    {DefaultObject, FarRightBelow, FarLeftAbove, Unplaced, Orphan, Window}
\* Desktop sizes, the ones a desktop object without extent reports included.
Desktops == {DefaultDesktop, << 7, 3 >>, << 0, 20 >>, << 24, 0 >>}
\* An object equal to DefaultObject in role and place, another object, and
\* one without a sound.
TwinObject == [DefaultObject EXCEPT !.id = "twin"]
DedupObjects == {DefaultObject, TwinObject, AheadObject, Window}
\* Times between two events: inside the duplicate window, at its end, and
\* longer than the desktop cache lives.
ShortWait == 50
LongWait == 6000

\* Events for objects anywhere on desktops of any size, each so long after
\* the one before that the desktop cache is refreshed; the requests are
\* submitted and their threads started.
NextAngles ==
    \/ \E c \in Callers, obj \in AnyObjects, desktop \in Desktops,
          running \in BOOLEAN :
          MainThreadFree /\ PlayObjectAsync(c, obj, LongWait, running, desktop)
    \/ \E c \in Callers : SubmitStep(c)

SpecAngles == Init /\ [][NextAngles]_vars

\* Events in quick succession for an object, for an equal-looking one and
\* for other ones.
NextDedup ==
    \/ \E c \in Callers, obj \in DedupObjects,
          wait \in {ShortWait, DedupWindow}, running \in BOOLEAN :
          MainThreadFree
              /\ PlayObjectAsync(c, obj, wait, running, cached_desktop_size)
    \/ \E c \in Callers : SubmitStep(c)

SpecDedup == Init /\ [][NextDedup]_vars

\* What the user can leave in the settings panel when saving, and volumes
\* of the synthesizer.
BoxSets ==
    { Boxes(TRUE, speakRoles, HRTF, playSounds, volume) :
          speakRoles \in {FALSE}, HRTF \in BOOLEAN, playSounds \in BOOLEAN,
          volume \in BOOLEAN }
\* The same with the HRTF and volume boxes left ticked and the "speak
\* roles" and "play sounds" boxes not both ticked, and what the user can
\* leave in the five sliders.
RoleBoxes ==
    { boxes \in { Boxes(TRUE, speakRoles, TRUE, playSounds, TRUE) :
                      speakRoles \in BOOLEAN, playSounds \in BOOLEAN } :
          ~(boxes.speakRoles /\ boxes.playSounds) }
Sliders ==
    { DefaultSettings,
      [DefaultSettings EXCEPT !.room_size = 50, !.dry_level = MaxSetting] }
SynthVolumes == {50, DefaultSynthVolume}

\* Events while the user saves the settings panel, changes the volume of the
\* synthesizer and switches the synthesizer.
NextVolume ==
    \/ \E c \in Callers : MainThreadFree /\ EventBegin(c)
    \/ \E c \in Callers : SubmitStep(c)
    \/ MainThreadFree /\ MakeSettings
    \/ \E boxes \in BoxSets :
           MainThreadFree /\ OnSave(boxes, TRUE, DefaultSettings)
    \/ \E volume \in SynthVolumes : MainThreadFree /\ SynthVolumeSet(volume)
    \/ MainThreadFree /\ SynthChangedBegin
    \/ SynthChangedStep

SpecVolume == Init /\ [][NextVolume]_vars

\* Events for the objects on the grid, rendered pass by pass.
NextPosition ==
    \/ \E c \in Callers, obj \in GridObjects, running \in BOOLEAN :
          MainThreadFree
              /\ PlayObjectAsync(c, obj, DedupWindow, running,
                                 cached_desktop_size)
    \/ \E c \in Callers : SubmitStep(c)
    \/ \E t \in Threads : RenderPass(t)

SpecPosition == Init /\ [][NextPosition]_vars

\* Sounds of one sample up to MaxFrames samples, from full scale negative
\* to full scale positive.
SampleValues == { Sample(j) : j \in {-64, -52, -51, -1, 0, 1, 51, 52, 64} }
LoudSounds ==
    UNION { [1..n -> SampleValues] : n \in FrameCounts }

\* Requests of the default volume, 1.25, for sounds with samples of any
\* level, rendered pass by pass.
NextConvert ==
    \/ \E c \in Callers : MainThreadFree /\ EventBegin(c)
    \/ \E c \in Callers : SubmitStep(c)
    \/ \E t \in Threads : RenderSound(t, LoudSounds)

SpecConvert == Init /\ [][NextConvert]_vars

\* The program with a native render call that may never return. Python
\* schedules every runnable thread again and again: weak fairness of each
\* play thread and of the handler the main thread is running.
NextHang ==
    \/ Next
    \/ \E t \in Threads : NativeHang(t)

FairSpec ==
    /\ Init
    /\ [][NextHang]_vars
    /\ \A t \in Threads : WF_vars(PlayThread(t))
    /\ \A c \in Callers : WF_vars(SubmitStep(c))
    /\ WF_vars(MainStep)

\* The requests of the two programs below are limited to MaxLive and
\* to MaxPanel.
LiveRoom == nthreads + Cardinality(Submitting) < MaxLive

PanelRoom == nthreads + Cardinality(Submitting) < MaxPanel

\* The settings panel: it is opened, the reverb box and the sliders are
\* changed, it is saved and discarded, in any order, while play threads
\* render. It is saved with the Reverb box ticked and the default sliders,
\* or unticked and the other sliders.
NextPanel ==
    \/ \E c \in Callers : MainThreadFree /\ PanelRoom /\ EventBegin(c)
    \/ \E c \in Callers : SubmitStep(c)
    \/ \E t \in Threads : RenderWhole(t)
    \/ MainThreadFree /\ MakeSettings
    \/ \E reverb \in BOOLEAN, sliders \in Sliders :
           MainThreadFree /\ OnReverbSettingChanged(reverb, sliders)
    \/ PushTail
    \/ SetReverbAcquire
    \/ SetReverbApply
    \/ \E boxes \in RoleBoxes, sliders \in Sliders :
           MainThreadFree /\ OnSave(boxes, sliders = DefaultSettings, sliders)
    \/ MainThreadFree /\ OnDiscard

SpecPanel == Init /\ [][NextPanel]_vars

\* The pyopenal engine under its callers and its monitor threads.
NextSteam ==
    \/ PlaySoundEnter
    \/ \E n \in Sounds, i \in Names : PlaySoundCreate(n, i)
    \/ \E n \in Sounds : MonitorStart(n)
    \/ \E i \in Names : SoundEnds(i)
    \/ \E n \in Sounds : MonitorPoll(n)
    \/ \E n \in Sounds : MonitorFinally(n)
    \/ StopAll
    \/ SteamCleanup

SpecSteam == Init /\ [][NextSteam]_vars

\* Requests for sounds of any length, also none, rendered pass by pass and
\* delivered, while reverb is switched on and off and the plugin terminates.
NextSilence ==
    \/ \E c \in Callers : MainThreadFree /\ LiveRoom /\ EventBegin(c)
    \/ \E c \in Callers : SubmitStep(c)
    \/ MainThreadFree /\ \E enabled \in BOOLEAN : EnableReverbBegin(enabled)
    \/ EnableReverbTail
    \/ MainThreadFree /\ TerminateBegin
    \/ TerminateStep
    \/ \E t \in Threads : RenderSound(t, SoundsOrNone)
    \/ \E t \in Threads : Deliver(t)

SpecSilence == Init /\ [][NextSilence]_vars

\* The whole program when every native call and every sink call returns:
\* events, on_synthChanged, terminate and the play threads as in Next, and
\* the settings panel calling enable_reverb and set_reverb_settings. Every
\* runnable thread is scheduled again and again (weak fairness), and a
\* play thread that waits for a lock gets it when the lock is released
\* again and again (strong fairness of the play threads).
NextLive ==
    \/ \E c \in Callers : MainThreadFree /\ LiveRoom /\ EventBegin(c)
    \/ \E c \in Callers : SubmitStep(c)
    \/ MainThreadFree /\ SynthChangedBegin
    \/ MainThreadFree /\ TerminateBegin
    \/ MainStep
    \/ \E t \in Threads : PlayThread(t)
    \/ MainThreadFree /\ \E args \in FewArgs : SetReverbBegin(args)
    \/ MainThreadFree /\ \E enabled \in BOOLEAN : EnableReverbBegin(enabled)
    \/ ReverbStep

LiveSpec ==
    /\ Init
    /\ [][NextLive]_vars
    /\ \A t \in Threads : SF_vars(PlayThread(t))
    /\ \A c \in Callers : WF_vars(SubmitStep(c))
    /\ WF_vars(MainStep \/ ReverbStep)

----------------------------------------------------------------------------
(* Claims about the scheduler.                                             *)

Started == {t \in Threads : tpc[t] # "none"}
FedGens == {fedLog[i] : i \in DOMAIN fedLog}

\* C1: whenever a play thread has invoked feed() for generation g, the shared
\* counter equalled g at the moment of the call.
C1_FeedWhileCurrent ==
    \A t \in Threads : feedSeen[t] # 0 => feedSeen[t] = tgen[t]

\* C2: whenever a play thread has invoked stop() for generation g, the shared
\* counter equalled g at the moment of the call.
C2_StopWhileCurrent ==
    \A t \in Threads : stopSeen[t] # 0 => stopSeen[t] = tgen[t]

\* C3: the generations handed to feed() are strictly increasing in the order
\* of the calls, so no generation is fed twice and none after a newer one.
C3_FeedsIncrease ==
    \A i, j \in DOMAIN fedLog : i < j => fedLog[i] < fedLog[j]

\* Two feeds have happened.
C3_Witness == Len(fedLog) >= 2

\* C4: when requests 1, 2, 3 had all finished rendering before any of them
\* made its staleness check, generations 1 and 2 are never fed and the burst
\* produces at most one feed().
C4_BurstFeedsOnlyLast ==
    burst = "yes" =>
        /\ 1 \notin FedGens
        /\ 2 \notin FedGens
        /\ Cardinality({i \in DOMAIN fedLog : fedLog[i] \in BurstGens}) <= 1

\* The burst happened, every request of it has ended and generation 3 was fed.
C4_Witness ==
    /\ burst = "yes"
    /\ \A t \in Threads : tgen[t] \in BurstGens => tpc[t] \in Terminal
    /\ 3 \in FedGens

\* C5 as stated: a request that ended Superseded has called neither stop()
\* nor feed().
C5_SupersededNoSinkCall ==
    \A t \in Threads : tpc[t] \in Superseded => stopSeen[t] = 0 /\ feedSeen[t] = 0

\* C5, amended: a request that ended Superseded has never called feed(); one
\* discarded at the first check has called nothing on the sink, one discarded
\* at the second check has called stop() once, before taking the lock.
C5_SupersededNoFeed ==
    \A t \in Threads :
        /\ tpc[t] \in Superseded => feedSeen[t] = 0
        /\ tpc[t] = "superseded1" => stopSeen[t] = 0
        /\ tpc[t] = "superseded2" => stopSeen[t] # 0

\* One request was discarded at each of the two checks.
C5_Witness ==
    /\ \E t \in Threads : tpc[t] = "superseded1"
    /\ \E t \in Threads : tpc[t] = "superseded2"

\* Submitted, Rendering and the terminal states as stages of a request.
Stage(p) ==
    CASE p = "none" -> 0
      [] p = "start" -> 1
      [] p \in Terminal -> 3
      [] OTHER -> 2

\* C6 as stated: every play thread that has finished is Delivered or Superseded.
C6_TwoTerminalStates ==
    \A t \in Threads : tpc[t] \in Terminal => tpc[t] \in {"delivered"} \cup Superseded

C6_States ==
    \A t \in Threads :
        /\ tpc[t] = "delivered" =>
              Cardinality({i \in DOMAIN fedLog : fedLog[i] = tgen[t]}) = 1
        /\ tpc[t] \in Superseded => feedSeen[t] = 0
        /\ tpc[t] = "failed" => feedSeen[t] = 0 /\ stopSeen[t] = 0
        /\ tpc[t] \in Terminal =>
              /\ openal_audio_mutex # ByThread(t)
              /\ wave_player_lock # ByThread(t)

C6_Steps ==
    \A t \in Threads :
        /\ Stage(tpc'[t]) >= Stage(tpc[t])
        /\ (tpc'[t] \in {"delivered"} \cup Superseded /\ tpc[t] \notin Terminal)
              => Stage(tpc[t]) = 2
        /\ tpc[t] \in Terminal =>
              /\ tpc'[t] = tpc[t]
              /\ feedSeen'[t] = feedSeen[t]
              /\ stopSeen'[t] = stopSeen[t]

\* C6, amended: a request only moves forward through Submitted, Rendering and
\* one of three terminal states, Delivered (its audio was fed, once),
\* Superseded (never fed) or Failed (process_sound returned nothing: no sink
\* call at all); Delivered and Superseded are entered from Rendering only, and
\* a request in a terminal state holds no lock and makes no further call.
C6_ThreeTerminalStates == []C6_States /\ [][C6_Steps]_vars

\* Requests have ended in each of the three terminal states.
C6_Witness ==
    /\ \E t \in Threads : tpc[t] = "delivered"
    /\ \E t \in Threads : tpc[t] \in Superseded
    /\ \E t \in Threads : tpc[t] = "failed"

InFeed == {t \in Threads : tpc[t] = "in_feed"}
InStop == {t \in Threads : tpc[t] = "in_stop"}
MainInClose == mainPc \in {"sc_in_close", "tm_in_close"}

\* C8 as stated: at most one of feed(), stop(), close() is executing, and the
\* caller of each holds _wave_player_lock.
C8_SinkCallsSerialized ==
    /\ Cardinality(InFeed \cup InStop) + (IF MainInClose THEN 1 ELSE 0) <= 1
    /\ \A t \in InFeed \cup InStop : wave_player_lock = ByThread(t)
    /\ MainInClose => wave_player_lock = ByMain

\* C8, amended: at most one of feed() and close() is executing, the caller of
\* each holds _wave_player_lock, and so does the main thread while it replaces
\* the player; stop() is called without the lock.
C8_FeedCloseSerialized ==
    /\ Cardinality(InFeed) + (IF MainInClose THEN 1 ELSE 0) <= 1
    /\ \A t \in InFeed : wave_player_lock = ByThread(t)
    /\ mainPc \in {"sc_close", "sc_in_close", "sc_create", "tm_close", "tm_in_close"}
          => wave_player_lock = ByMain

\* A feed() is executing while another thread is inside stop() and the main
\* thread waits for the lock to close the player.
C8_Witness ==
    /\ InFeed # {}
    /\ InStop # {}
    /\ mainPc \in {"sc_wait", "tm_wait"}

\* A request started after the render call of thread `hung` got stuck.
LaterRequests == {t \in Started : hung # 0 /\ t > hungAt}

\* C9 as stated: once a native render call is stuck, every request submitted
\* afterwards eventually reaches a terminal state.
C9_LaterRequestsTerminate ==
    \A t \in Threads : (t \in LaterRequests) ~> (tpc[t] \in Terminal)

\* C9, amended: once a native render call is stuck, its thread keeps the
\* render mutex; the handlers still complete every submit, but no request
\* submitted afterwards gets past the wait for the mutex.
C9_LaterRequestsWait ==
    hung # 0 =>
        /\ openal_audio_mutex = ByThread(hung)
        /\ \A c \in Callers : InSubmit(c) => ENABLED SubmitStep(c)
        /\ \A t \in LaterRequests : tpc[t] \in {"start", "wait_mutex"}

\* A request submitted after the render got stuck waits for the mutex.
C9_Witness == \E t \in LaterRequests : tpc[t] = "wait_mutex"

\* C10: a handler inside _play_object_async holds no lock and its next step
\* is enabled in every state, and a handler can enter it whenever the main
\* thread is free, whatever the play threads are doing.
C10_SubmitNeverWaits ==
    \A c \in Callers :
        /\ InSubmit(c) =>
              /\ ENABLED SubmitStep(c)
              /\ openal_audio_mutex # ByMain
              /\ wave_player_lock # ByMain
        /\ (MainThreadFree /\ AcceptsEvents /\ RoomForRequest) => ENABLED EventBegin(c)

\* A submit is under way while one play thread is inside the native render
\* and another one inside feed().
C10_Witness ==
    /\ \E c \in Callers : callerPc[c] = "store"
    /\ \E t \in Threads : tpc[t] = "render"
    /\ InFeed # {}

----------------------------------------------------------------------------
(* Claims about the engine.                                                *)

InPass == {t \in Threads : tpc[t] \in PassPcs}
MainInNative == mainPc \in {"in_native", "rv_native", "tm_native"}

\* C11: at most one thread is inside the native calls of initialize, cleanup,
\* set_reverb_settings and process_sound, and that thread holds the module
\* mutex.
C11_NativeCallsSerialized ==
    /\ Cardinality(InPass) + (IF MainInNative THEN 1 ELSE 0) <= 1
    /\ \A t \in InPass : openal_audio_mutex = ByThread(t)
    /\ MainInNative => openal_audio_mutex = ByMain

\* A play thread is inside its pass while set_reverb_settings and another
\* play thread wait for the mutex.
C11_Witness ==
    /\ InPass # {}
    /\ mainPc = "rv_wait"
    /\ \E u \in Threads : tpc[u] = "wait_mutex"

\* C12: the values one render pass reads belong to one configuration: when
\* the pass has connected the source to the reverb send it renders a tail,
\* and when it has disconnected the send it renders no tail.
C12_PassReadsOneConfiguration ==
    \A t \in Threads :
        tpc[t] = "pass_render" => (pass.send = "slot" <=> pass.tail # 0)

Failures == {"raised", "bytes_after_error"}

\* C13: a render pass that failed holds neither lock, the mutex is only ever
\* held by a thread that is inside its pass, and the engine is still
\* initialized after a failure, so a later request finds the mutex free or
\* held by a pass that will release it.
C13_FailureLeavesLocksFree ==
    /\ \A t \in Threads :
          renderResult[t] \in Failures =>
              /\ openal_audio_mutex # ByThread(t)
              /\ (wave_player_lock = ByThread(t) =>
                     tpc[t] \in {"check2", "feed", "in_feed"})
    /\ \A t \in Threads : openal_audio_mutex = ByThread(t) => tpc[t] = "render"
    /\ (\E t \in Threads : renderResult[t] \in Failures) => initialized

\* The pass of request 1 raised and request 2, submitted later, was rendered
\* and fed.
C13_Witness ==
    /\ renderResult[1] = "raised"
    /\ renderResult[2] = "bytes"
    /\ tpc[2] = "delivered"

C15_States ==
    /\ released <= created
    /\ initialized <=> created = released + 1
    /\ ~initialized => created = released

C15_Steps ==
    (mainPc = "tm_cleanup" /\ ~initialized /\ mainPc' # mainPc) =>
        /\ mainPc' = "tm_done"
        /\ lastReturn'.op = "cleanup"
        /\ ~lastReturn'.native
        /\ UNCHANGED << nativeVars, initialized, reverbVars, openal_audio_mutex >>

\* C15: cleanup() on an engine that is not initialized (cleaned up before,
\* never initialized, or initialize failed) makes no native call and changes
\* nothing, and the native objects are released once for each time they were
\* created.
C15_CleanupIdempotent == []C15_States /\ [][C15_Steps]_vars

\* A second cleanup() has returned without a native call.
C15_Witness ==
    /\ lastReturn.op = "cleanup"
    /\ ~lastReturn.native
    /\ released = 1
    /\ created = 1

C16_States ==
    \A t \in Threads : renderResult[t] = "None" => tpc[t] = "failed"

C16_Steps ==
    \A t \in Threads :
        (tpc[t] = "start" /\ ~(dll /\ initialized) /\ tpc'[t] # "start") =>
            /\ tpc'[t] = "failed"
            /\ renderResult'[t] = "None"
            /\ UNCHANGED << nativeVars, initialized, reverbVars,
                            openal_audio_mutex, pass >>

\* C16: process_sound on an engine without DLL or not initialized returns
\* None, without taking the mutex, making a native call or changing the
\* engine.
C16_NotInitializedReturnsNone == []C16_States /\ [][C16_Steps]_vars

\* process_sound returned None on an engine that had been cleaned up.
C16_Witness ==
    /\ \E t \in Threads : renderResult[t] = "None"
    /\ released >= 1
    /\ ~initialized

\* The error the specification names for each way initialize() fails.
InitError(cause) ==
    CASE cause \in {"dll_none", "device_null"} -> "DeviceUnavailable"
      [] cause = "format_unsupported" -> "FormatUnsupported"
      [] OTHER -> "ContextCreationFailed"

C18_StoredValuesClamped ==
    effect.configured =>
        /\ dry_level \in 0..MaxSetting
        /\ effect.decay_time \in 100..4000
        /\ effect.gainhf \in 100..1000
        /\ effect.gain \in 0..500
        /\ effect.diffusion \in 0..1000

InRange(args) ==
    /\ args.room_size \in 0..MaxSetting
    /\ args.damping \in 0..MaxSetting
    /\ args.wet_level \in 0..MaxSetting
    /\ args.dry_level \in 0..MaxSetting
    /\ args.width \in 0..MaxSetting

\* The latest engine call was a set_reverb_settings that returned True.
SettingsApplied ==
    /\ mainPc = "idle"
    /\ lastReturn.op = "set_reverb_settings"
    /\ lastReturn.value = "True"

\* C19: for arguments in [0, 1] set_reverb_settings applies
\* decay = 0.1 + 3.9 * room_size, gainHF = 1 - 0.9 * damping,
\* gain = 0.5 * wet_level and diffusion = width, decay lies in [0.1, 4.0]
\* and gainHF in [0.1, 1.0], and the defaults give 0.49, 0.1 and 0.045.
C19_MappingInRange ==
    (SettingsApplied /\ InRange(engineArgs)) =>
        /\ effect.decay_time = 100 + 39 * engineArgs.room_size
        /\ effect.gainhf = 1000 - 9 * engineArgs.damping
        /\ effect.gain = 5 * engineArgs.wet_level
        /\ effect.diffusion = 10 * engineArgs.width
        /\ dry_level = engineArgs.dry_level
        /\ effect.decay_time \in 100..4000
        /\ effect.gainhf \in 100..1000
        /\ engineArgs = DefaultSettings =>
              effect.decay_time = 490 /\ effect.gainhf = 100 /\ effect.gain = 45

\* The default settings were applied after another setting had been.
C19_Witness ==
    /\ SettingsApplied
    /\ engineArgs = DefaultSettings
    /\ effect.decay_time = 490
    /\ \E t \in Threads : tpc[t] = "check1"

\* C20: a render returns the input frames plus the tail of the decay time of
\* the latest set_reverb_settings when reverb is enabled, and the input
\* frames alone when it is disabled, with 4 bytes for each frame.
C20_RenderLength ==
    \A t \in Threads :
        tpc[t] = "pass_render" =>
            /\ pass.out = pass.frames
                   + (IF reverb_enabled THEN TailFrames(effect.decay_time) ELSE 0)
            /\ pass.bytes = 4 * pass.out

----------------------------------------------------------------------------
(* Claims about the render pass.                                           *)

\* Where a pass is once it has set the gain and the routing of the source.
RoutedPcs == {"pass_play", "pass_tail", "pass_render"}

\* C21: in every render pass the source is connected to the reverb effect
\* send if and only if _reverb_enabled was set when the pass read it, and a
\* pass that read it unset has set the send to none, whatever an earlier
\* pass had connected.
C21_SendFollowsReverb ==
    \A t \in Threads :
        tpc[t] \in RoutedPcs =>
            /\ source.send = "slot" <=> pass.routed
            /\ ~pass.routed => source.send = "none"

\* A pass rendered with reverb disabled, after another pass has returned its
\* bytes: the send is none.
C21_Witness ==
    \E t, u \in Threads :
        /\ tpc[t] = "pass_render"
        /\ ~pass.routed
        /\ source.send = "none"
        /\ renderResult[u] = "bytes"

\* C22: in a render pass the gain of the source is _dry_level when reverb is
\* enabled and the volume of the request when reverb is disabled.
C22_GainByReverb ==
    \A t \in Threads :
        tpc[t] \in RoutedPcs =>
            source.gain = IF pass.routed THEN dry_level ELSE tparams[t].volume

\* The native calls of a pass up to alSourcePlay, in the order of the code.
CallOrder ==
    << "detach", "upload", "attach", "position", "gain", "route", "play" >>

\* C23: the native calls of a pass are made in the order detach, upload,
\* attach, position, gain, routing, play under one hold of the mutex, the
\* buffer is never uploaded while it is attached to the source, and whenever
\* no play thread holds the mutex the source is not playing, also after a
\* pass that ended by an error.
C23_OrderedAndStopped ==
    /\ Len(pass.calls) <= Len(CallOrder)
    /\ pass.calls = SubSeq(CallOrder, 1, Len(pass.calls))
    /\ pass.upload # "rejected"
    /\ (\A t \in Threads : openal_audio_mutex # ByThread(t))
           => source.state # "playing"

----------------------------------------------------------------------------
(* Claims about the parameters of a request.                               *)

\* The names of the values a play thread receives besides its generation.
PrimitiveNames == {"role", "angle_x", "angle_y", "volume"}
\* The reads of the object the latest event was for, all made by a handler.
HandlerReads(obj) ==
    { << "handler", property >> : property \in PropertiesRead(obj) }
\* A step that starts a play thread.
StartsThread == nthreads' # nthreads

\* C24: the properties of a UI object are read by the handler, on the thread
\* that submits, and all of them before the play thread of the request is
\* started; the play thread receives the role key, the two angles and the
\* volume (and its generation, tgen), and no object.
C24_States ==
    /\ \A t \in Threads : DOMAIN tparams[t] = PrimitiveNames
    /\ \A t \in Threads : tparams[t].role \in SoundRoles \cup {"None"}
    /\ \A read \in objReads : read[1] = "handler"
C24_Steps ==
    /\ objReads' # objReads =>
          /\ tpc' = tpc
          /\ ~StartsThread
          /\ \E c \in Callers : callerPc[c] = "idle"
    /\ StartsThread =>
          /\ objReads' = objReads
          /\ HandlerReads(last_played_object) \subseteq objReads
          /\ "treeInterceptor" \in PropertiesRead(last_played_object)
C24_ReadsBeforeThread == []C24_States /\ [][C24_Steps]_vars

\* The thread of a request for the object inside a treeInterceptor has
\* rendered: role, location, treeInterceptor and its current object were
\* read by the handler.
C24_Witness ==
    /\ \E t \in Threads : tparams[t].angle_x = Whole(60) /\ tpc[t] = "check1"
    /\ << "handler", "treeInterceptor.currentNVDAObject" >> \in objReads

\* An angle is in [-90, 90].
InAngleRange(angle) ==
    /\ -MaxAngle * angle.den <= angle.num
    /\ angle.num <= MaxAngle * angle.den

\* C25: every request handed to a play thread has angle_x and angle_y in
\* [-90, 90], wherever the object is and whatever the desktop's size.
C25_AnglesClamped ==
    /\ \A t \in Threads :
          InAngleRange(tparams[t].angle_x) /\ InAngleRange(tparams[t].angle_y)
    /\ \A c \in Callers :
          InAngleRange(params[c].angle_x) /\ InAngleRange(params[c].angle_y)

\* Threads were started for an object far to the right below the desktop
\* and for one far to the left above it, and an event on a desktop without
\* width raised.
C25_Witness ==
    /\ \E t \in Threads :
          /\ tpc[t] = "start"
          /\ tparams[t].angle_x = Whole(MaxAngle)
          /\ tparams[t].angle_y = Whole(-MaxAngle)
    /\ \E t \in Threads :
          /\ tpc[t] = "start"
          /\ tparams[t].angle_x = Whole(-MaxAngle)
          /\ tparams[t].angle_y = Whole(MaxAngle)
    /\ \E i \in DOMAIN eventLog : eventLog[i].outcome = "raised"

\* Two objects show the same: same role, same place.
SameContent(a, b) ==
    /\ a.role = b.role
    /\ a.location = b.location
    /\ a.ti = b.ti
    /\ a.ti_location = b.ti_location
\* The events that became requests.
Requests == {i \in DOMAIN eventLog : eventLog[i].outcome = "params"}

\* C26: of two events for the same role with identical content that arrive
\* within 100 ms of each other at most one becomes a request.
C26_NoTwoRequestsInWindow ==
    \A i, j \in Requests :
        (i < j /\ SameContent(eventLog[i].object, eventLog[j].object))
            => eventLog[j].time - eventLog[i].time >= DedupWindow

\* The latest event before event j that got past the duplicate check, 0 if
\* there is none.
Kept == {i \in DOMAIN eventLog : eventLog[i].outcome \notin EarlyOutcomes}
RECURSIVE LastKept(_)
LastKept(j) ==
    IF j = 1 THEN 0
    ELSE IF j - 1 \in Kept THEN j - 1 ELSE LastKept(j - 1)
\* Event j is for the object of the latest kept event and less than 100 ms
\* after it.
RepeatsLastKept(j) ==
    /\ LastKept(j) # 0
    /\ eventLog[j].object.id = eventLog[LastKept(j)].object.id
    /\ eventLog[j].time - eventLog[LastKept(j)].time < DedupWindow

\* C26, amended: an event is dropped as a duplicate exactly when it is for
\* the same object as the latest event that was not dropped and arrives
\* less than 100 ms after that event; a dropped event increments nothing
\* and starts no thread, every other event for a role with a sound becomes
\* one request.
C26_DuplicateOfLastKept ==
    /\ \A j \in DOMAIN eventLog :
          eventLog[j].outcome \notin {"no_sounds", "say_all"} =>
              (eventLog[j].outcome = "duplicate" <=> RepeatsLastKept(j))
    /\ \A j \in DOMAIN eventLog :
          eventLog[j].outcome \in {"params", "no_sound_for_role", "raised"} =>
              (eventLog[j].outcome = "params"
                   <=> eventLog[j].object.role \in SoundRoles
                           /\ cached_desktop_size[1] # 0
                           /\ cached_desktop_size[2] # 0)
    /\ Cardinality(Requests) = nthreads + Cardinality(Submitting)
    /\ sound_generation <= Cardinality(Requests)

\* An object is played, its repetition 50 ms later is dropped, and the next
\* one, 100 ms after the first, is played again.
C26_Witness ==
    /\ Len(eventLog) = 3
    /\ \A j \in DOMAIN eventLog : eventLog[j].object = DefaultObject
    /\ eventLog[1].outcome = "params"
    /\ eventLog[2].outcome = "duplicate"
    /\ eventLog[3].outcome = "params"
    /\ eventLog[3].time - eventLog[1].time = DedupWindow
    /\ nthreads = 2

\* The volume _compute_volume would compute without the HRTF setting.
ComputedVolume == ComputeVolume([conf EXCEPT !.HRTF = FALSE], synthVolume)

\* C27: the volume given to a request is the computed volume plus 0.25 when
\* the HRTF setting is on and the computed volume itself when it is off.
C27_HRTFAddsBoost ==
    \A c \in Callers :
        callerPc[c] = "load" =>
            params[c].volume = ComputedVolume
                                   + (IF conf.HRTF THEN HRTFBoost ELSE 0)

----------------------------------------------------------------------------
(* Claims about the conversion of the samples and the position.            *)

\* Where a pass is once it has converted the samples.
UploadedPcs == {"pass_route", "pass_play", "pass_tail", "pass_render"}
MinInt16 == -32768
\* s * 32767 truncated to an integer.
Scaled(s) == Trunc(s.num * FullScale, s.den)

\* C28: each sample s is converted to s * 32767 clamped to [-32768, 32767],
\* also when s is outside [-1, 1].
C28_ProductClamped ==
    \A t \in Threads :
        tpc[t] \in UploadedPcs =>
            \A i \in DOMAIN pass.pcm :
                pass.pcm[i] =
                    IF Scaled(pass.input[i]) > FullScale THEN FullScale
                    ELSE IF Scaled(pass.input[i]) < MinInt16 THEN MinInt16
                    ELSE Scaled(pass.input[i])

\* C28, amended: each sample is clamped to [-1, 1] first and then multiplied
\* by 32767 and truncated toward zero: the result is in [-32767, 32767], it
\* is 32767 for every s >= 1, -32767 for every s <= -1, and s * 32767
\* truncated for every s between.
C28_SampleClampedThenScaled ==
    \A t \in Threads :
        tpc[t] \in UploadedPcs =>
            /\ Len(pass.pcm) = Len(pass.input)
            /\ \A i \in DOMAIN pass.pcm :
                  LET s == pass.input[i]
                  IN  /\ -FullScale <= pass.pcm[i]
                      /\ pass.pcm[i] <= FullScale
                      /\ s.num >= s.den => pass.pcm[i] = FullScale
                      /\ s.num <= -s.den => pass.pcm[i] = -FullScale
                      /\ (-s.den < s.num /\ s.num < s.den)
                             => pass.pcm[i] = Scaled(s)

\* A pass has converted a sample of -1.25 to -32767 and one of 0.996 to 32639.
C28_Witness ==
    \E t \in Threads :
        /\ tpc[t] = "pass_route"
        /\ pass.input = << Rat(-5, 4), Rat(255, 256) >>
        /\ pass.pcm = << -FullScale, 32639 >>

\* The square of the length of a position, in units of TrigUnit squared.
SquareLength(p) == p[1] * p[1] + p[2] * p[2] + p[3] * p[3]

----------------------------------------------------------------------------
(* Claims about the two locks.                                             *)

\* Thread t, or the main thread, holds both locks.
HoldsBoth(owner) == openal_audio_mutex = owner /\ wave_player_lock = owner

\* C30: no thread holds the render mutex and the delivery lock at the same
\* time: a play thread has released the mutex before it calls stop() or
\* waits for the delivery lock, and the main thread has released the
\* delivery lock before cleanup() takes the mutex; on_synthChanged never
\* takes the mutex.
C30_LocksNeverNested ==
    /\ \A t \in Threads : ~HoldsBoth(ByThread(t))
    /\ ~HoldsBoth(ByMain)
    /\ \A t \in Threads :
          (wave_player_lock = ByThread(t) \/ t \in InStop \/ t \in InFeed)
              => openal_audio_mutex # ByThread(t)
    /\ mainPc \in {"tm_wait_mutex", "tm_native"} => wave_player_lock # ByMain
    /\ mainPc \in {"sc_wait", "sc_close", "sc_in_close", "sc_create"}
           => openal_audio_mutex # ByMain

\* Both locks are held, by different threads: terminate is inside cleanup()
\* with the mutex while a play thread is inside feed() with the lock.
C30_Witness ==
    /\ mainPc = "tm_native"
    /\ openal_audio_mutex = ByMain
    /\ \E t \in InFeed : wave_player_lock = ByThread(t)

----------------------------------------------------------------------------
(* Claims about the whole program.                                         *)

\* The thread that holds a lock can take its next step.
HolderCanStep ==
    /\ \A t \in Threads :
          (openal_audio_mutex = ByThread(t) \/ wave_player_lock = ByThread(t))
              => ENABLED PlayThread(t)
    /\ (openal_audio_mutex = ByMain \/ wave_player_lock = ByMain)
           => ENABLED (MainStep \/ ReverbStep)
\* Nobody waits for a lock while holding the other one.
NoWaitWhileHolding ==
    /\ \A t \in Threads :
          /\ tpc[t] = "wait_mutex" => wave_player_lock # ByThread(t)
          /\ tpc[t] = "wait_lock" => openal_audio_mutex # ByThread(t)
    /\ mainPc \in {"sc_wait", "tm_wait"} => openal_audio_mutex # ByMain
    /\ mainPc \in {"rv_wait", "tm_wait_mutex"} => wave_player_lock # ByMain

\* C31: when every native call and every sink call returns there is no
\* deadlock (whoever holds a lock can go on, and nobody waits for one lock
\* while holding the other) and, under fair scheduling, every request that
\* was submitted reaches a terminal state, whatever the settings panel,
\* on_synthChanged and terminate do meanwhile.
C31_EveryRequestEnds ==
    /\ [](HolderCanStep /\ NoWaitWhileHolding)
    /\ \A t \in Threads : (tpc[t] # "none") ~> (tpc[t] \in Terminal)

\* Every request has ended, one of them delivered, after reverb was
\* disabled and the plugin terminated.
C31_Witness ==
    /\ nthreads = MaxLive
    /\ \A t \in Started : tpc[t] \in Terminal
    /\ \E t \in Threads : tpc[t] = "delivered"
    /\ ~reverb_enabled
    /\ mainPc = "tm_done"

\* What process_sound returned when _play_sound_async takes it for a failure.
NoAudio == {"None", "empty"}

C32_States ==
    \A t \in Threads :
        renderResult[t] \in NoAudio =>
            tpc[t] = "failed" /\ stopSeen[t] = 0 /\ feedSeen[t] = 0
C32_Steps ==
    \A t \in Threads :
        /\ (renderResult[t] \notin NoAudio /\ renderResult'[t] \in NoAudio) =>
              UNCHANGED << sound_generation, wpClosed, playing, fedLog,
                           feedSeen, stopSeen, wave_player_lock >>
        /\ renderResult[t] \in NoAudio =>
              tpc'[t] = tpc[t] /\ renderResult'[t] = renderResult[t]

\* C32: a request whose render returned None or empty bytes calls neither
\* stop() nor feed(); the step in which it fails changes neither the sink
\* nor the generation counter, and the thread does nothing after it, so
\* what the sink is playing goes on.
C32_FailedRenderTouchesNothing == []C32_States /\ [][C32_Steps]_vars

\* Request 1 was fed and the sink still holds it; the render of request 2,
\* the current one, returned empty bytes and its thread has ended.
C32_Witness ==
    /\ fedLog = << 1 >>
    /\ playing = 1
    /\ sound_generation = 2
    /\ renderResult[2] = "empty"
    /\ tpc[2] = "failed"

\* C33 as stated: whoever is inside the native calls of process_sound or
\* set_reverb_settings finds the engine initialized, that is not cleaned
\* up, and the native objects are released no more often than created.
C33_NoNativeAfterCleanup ==
    /\ \A t \in Threads : tpc[t] = "render" => initialized
    /\ mainPc = "rv_native" => initialized
    /\ released <= created

\* Play thread t enters stop() or feed() in this step.
SinkCallIssued(t) ==
    /\ tpc'[t] \in {"in_stop", "in_feed"}
    /\ tpc'[t] # tpc[t]

\* C34 as stated: a play thread enters stop() or feed() only while
\* self.wave_player names a WavePlayer on which close() was not called.
C34_NoCallOnClosedSink ==
    [][\A t \in Threads : SinkCallIssued(t) => ~wpClosed]_vars

\* C36 as stated: the volume a handler has extracted for its request is
\* _compute_volume() on the configuration and the synthesizer volume of
\* that moment.
C36_VolumeOfCurrentConf ==
    \A c \in Callers :
        callerPc[c] = "load" =>
            params[c].volume = ComputeVolume(conf, synthVolume)

----------------------------------------------------------------------------
(* Claims about the settings panel.                                        *)

\* The handler the panel ran last has returned.
HandlerReturned(handler) == mainPc = "idle" /\ panel.last = handler

\* C35 as stated: once onReverbSettingChanged has pushed the box and the
\* sliders, enable_reverb first and set_reverb_settings after it, the
\* cached tail is non-zero only if reverb is enabled.
C35_TailOnlyWithReverb ==
    HandlerReturned("onReverbSettingChanged") =>
        (reverb_tail_frames # 0 => reverb_enabled)

\* C37: an onSave that shows the error box leaves the configuration as it
\* was, every key of it, and only onSave shows the box.
C37_RefusedSaveChangesNothing ==
    /\ [](panel.error => panel.last = "onSave")
    /\ [][panel'.error => conf' = conf]_vars

\* A save was refused after an earlier one had changed the configuration.
C37_Witness ==
    /\ panel.last = "onSave"
    /\ panel.error
    /\ conf.RoomSize # panel.unspoken_copy.RoomSize
    /\ ~conf.noSounds
    /\ ~conf.speakRoles

\* Mutant of ShouldNukeRoleSpeech: the speakRoles setting is not looked at.
ShouldNukeRoleSpeech_NoSpeakRoles(running) ==
    IF conf.sayAll /\ running THEN FALSE ELSE TRUE

\* GlobalPlugin.shouldNukeRoleSpeech(): whether the hook removes the role
\* of an object that has a sound from what NVDA speaks.
ShouldNukeRoleSpeech(running) ==
    IF conf.sayAll /\ running THEN FALSE
    ELSE IF conf.speakRoles THEN FALSE
    ELSE TRUE

\* The configuration makes _extract_sound_params return before it looks at
\* the object: no sound.
SoundOffByConf(running) ==
    ExtractOutcome(DefaultObject, now, running, DefaultDesktop)
        \in {"no_sounds", "say_all"}

\* C38: whatever the panel's handlers did, the configuration never has
\* noSounds set with speakRoles unset, and for an object whose role has a
\* sound it never suppresses both the sound and the spoken role, whether
\* say-all is running or not.
C38_SoundOrRole ==
    /\ ~(conf.noSounds /\ ~conf.speakRoles)
    /\ \A running \in BOOLEAN :
          ~(SoundOffByConf(running) /\ ShouldNukeRoleSpeech(running))

\* Sounds are off and roles are spoken, and the panel has just refused to
\* switch the spoken roles off as well.
C38_Witness ==
    /\ conf.noSounds
    /\ conf.speakRoles
    /\ panel.last = "onSave"
    /\ panel.error

\* C39: when onDiscard has returned, every key of the configuration has
\* the value it had when the panel was opened, and the reverb flag, the dry
\* level and the effect parameters of the engine are those of that
\* configuration.
C39_DiscardRestores ==
    HandlerReturned("onDiscard") =>
        /\ conf = panel.unspoken_copy
        /\ reverb_enabled = conf.Reverb
        /\ dry_level = conf.DryLevel
        /\ effect = EffectOf(SettingsOf(conf.RoomSize, conf.Damping,
                                        conf.WetLevel, conf.DryLevel,
                                        conf.Width))

\* The panel was opened on a saved configuration with reverb off and a
\* larger room, reverb was switched on with the default sliders, and
\* onDiscard brought the configuration and the engine back.
C39_Witness ==
    /\ HandlerReturned("onDiscard")
    /\ ~conf.Reverb
    /\ conf.RoomSize = 50
    /\ conf.DryLevel = MaxSetting
    /\ ~reverb_enabled
    /\ dry_level = MaxSetting
    /\ effect.decay_time = DecayTime(50)

----------------------------------------------------------------------------
(* Claims about the pyopenal engine.                                       *)

\* The calls of play_sound that made a pair.
Made == {n \in Sounds : steam.name[n] # 0}

\* C40 as stated: the delete calls are made once with the handle of each
\* pair, a pair is deleted by its own monitor, by stop_all or by cleanup
\* and with its own handle, and _active_handles holds the pairs for which
\* no delete call was made.
C40_PairsDeletedOnce ==
    /\ \A n \in Made : steam.delCalls[n] <= 1
    /\ \A n \in Made : steam.deletedBy[n] # "nobody" => steam.delCalls[n] >= 1
    /\ steam.active_handles = {n \in Made : steam.delCalls[n] = 0}

====
